---- MODULE Spec2Model ----
(***************************************************************************)
(* Query-driven audio source separation: the SmartAudioSeparator           *)
(* component (both builds kept in SmartAudioSeparator.tsx, and the         *)
(* simulated build in utils/audioProcessing.ts), the AudioSeparator        *)
(* component, and the pure helpers they call (query parsing, label         *)
(* matching, the profile catalogs, the framing/masking engines, the        *)
(* confidence scorers and the WAV encoder).                                *)
(*                                                                         *)
(* Numbers.  A JavaScript number is modelled in fixed point: the integer   *)
(* x stands for x / SCALE.  NaN is a distinguished value that every        *)
(* arithmetic operator propagates and every comparison rejects, as IEEE    *)
(* arithmetic does.  Strings are sequences of one-character strings, so    *)
(* that toLowerCase, trim, split, includes and replace are computed.       *)
(***************************************************************************)
EXTENDS Integers, Sequences, FiniteSets, TLC

VARIABLES
  build,               \* the component in use: "enhanced" and "amplified" are the
                       \* two SmartAudioSeparator texts of SmartAudioSeparator.tsx,
                       \* "simulated" the one of utils/audioProcessing.ts,
                       \* "separator" is AudioSeparator.tsx
  detectedSounds,      \* SmartAudioSeparator prop: the labels of the detector
  localAudioFile,      \* SmartAudioSeparator state
  localAudioUrl,
  textQuery,           \* state of both components
  separationResults,
  isProcessing,        \* state of both components
  processingProgress,  \* in fixed point, as every number
  mixedAudio,          \* AudioSeparator state
  separatedAudios,
  download,            \* the download attribute of the last anchor clicked
  req,                 \* the frame of the async handler in flight; pc is "idle",
                       \* "decoding", "separating" or "waiting"
  toasts,              \* titles of the toasts shown since the last request began
  audioFile,           \* SmartAudioSeparator props, as the parent passes them
  audioUrl,
  playingIndex,        \* SmartAudioSeparator state: Null or the number of a result,
                       \* counted from 1 as the elements of separationResults are
  playing,             \* the result numbers whose <audio> element is playing
  fnIn,                \* the argument a pure function under test is applied to
  fnOut,               \* its result, or Null before the application
  fnPc                 \* "idle", "ready" before the application, "applied" after

compVars == <<build, detectedSounds, localAudioFile, localAudioUrl, textQuery,
              separationResults, isProcessing, processingProgress, mixedAudio,
              separatedAudios, download, req, toasts, audioFile, audioUrl,
              playingIndex, playing>>
fnVars == <<fnIn, fnOut, fnPc>>
vars == <<compVars, fnVars>>

\* a nullable value is Null or Some(value)
Null == <<>>
Some(value) == <<value>>
ValueOf(nullable) == nullable[1]

-----------------------------------------------------------------------------
(* Fixed-point arithmetic with NaN                                         *)

SCALE == 10 * 10 * 10
NaN == 0 - 999999999

IsNaN(x) == x = NaN
Abs(x) == IF x < 0 THEN 0 - x ELSE x
Min(a, b) == IF a < b THEN a ELSE b
Max(a, b) == IF a > b THEN a ELSE b

\* x / d rounded to the nearest integer (ties away from zero), d > 0
RDiv(x, d) == IF x >= 0 THEN (x + d \div 2) \div d ELSE 0 - ((d \div 2 - x) \div d)
\* x / d truncated toward zero, d > 0
TDiv(x, d) == IF x >= 0 THEN x \div d ELSE 0 - ((0 - x) \div d)

FAdd(a, b) == IF IsNaN(a) \/ IsNaN(b) THEN NaN ELSE a + b
FSub(a, b) == IF IsNaN(a) \/ IsNaN(b) THEN NaN ELSE a - b
FMul(a, b) == IF IsNaN(a) \/ IsNaN(b) THEN NaN ELSE RDiv(a * b, SCALE)
FAbs(a) == IF IsNaN(a) THEN NaN ELSE Abs(a)
\* Math.min / Math.max: NaN if either argument is NaN
FMin(a, b) == IF IsNaN(a) \/ IsNaN(b) THEN NaN ELSE Min(a, b)
FMax(a, b) == IF IsNaN(a) \/ IsNaN(b) THEN NaN ELSE Max(a, b)
\* a / n for an integer count n: 0 / 0 is NaN (no path divides a non-zero
\* value by a zero count: the sums are taken over the counted elements)
FDivN(a, n) == IF IsNaN(a) \/ n = 0 THEN NaN ELSE RDiv(a, n)
\* a > b, a < b: false as soon as an operand is NaN
FGt(a, b) == ~IsNaN(a) /\ ~IsNaN(b) /\ a > b
FLt(a, b) == ~IsNaN(a) /\ ~IsNaN(b) /\ a < b

\* num / den in fixed point for 0 <= num <= den, den > 0; both are scaled
\* down together when the product num * SCALE would leave the integer range
Ratio(num, den) ==
  LET D == den \div 2000000 + 1
  IN  RDiv((num \div D) * SCALE, den \div D)

-----------------------------------------------------------------------------
(* Strings                                                                 *)

RECURSIVE FoldSeq(_, _, _, _)
\* acc after op(acc, s[i]) for i = from .. Len(s), in order (Array.forEach);
\* the test next = next has TLC evaluate next once, before the next turn
FoldSeq(op(_, _), acc, s, from) ==
  IF from > Len(s) THEN acc
  ELSE LET next == op(acc, s[from])
       IN  IF next = next THEN FoldSeq(op, next, s, from + 1) ELSE acc

SeqContains(s, x) == \E i \in 1..Len(s) : s[i] = x

LowerOf ==
  [A |-> "a", B |-> "b", C |-> "c", D |-> "d", E |-> "e", F |-> "f", G |-> "g",
   H |-> "h", I |-> "i", J |-> "j", K |-> "k", L |-> "l", M |-> "m", N |-> "n",
   O |-> "o", P |-> "p", Q |-> "q", R |-> "r", S |-> "s", T |-> "t", U |-> "u",
   V |-> "v", W |-> "w", X |-> "x", Y |-> "y", Z |-> "z"]

toLowerCase(s) ==
  [i \in 1..Len(s) |-> IF s[i] \in DOMAIN LowerOf THEN LowerOf[s[i]] ELSE s[i]]

\* the regular expression class \s
isSpace(c) == c \in {" ", "\t", "\n", "\r"}

RECURSIVE trimStart(_)
trimStart(s) == IF s # <<>> /\ isSpace(Head(s)) THEN trimStart(Tail(s)) ELSE s
RECURSIVE trimEnd(_)
trimEnd(s) ==
  IF s # <<>> /\ isSpace(s[Len(s)]) THEN trimEnd(SubSeq(s, 1, Len(s) - 1)) ELSE s
trim(s) == trimEnd(trimStart(s))

\* s.includes(sub)
includes(s, sub) ==
  \E i \in 1..(Len(s) - Len(sub) + 1) : SubSeq(s, i, i + Len(sub) - 1) = sub

\* does s hold the word w between two white-space characters, starting at p
wordAt(s, p, w) ==
  /\ p + Len(w) + 1 <= Len(s)
  /\ isSpace(s[p])
  /\ SubSeq(s, p + 1, p + Len(w)) = w
  /\ isSpace(s[p + Len(w) + 1])

\* length of the match of /[,;]|\sand\s|\sor\s/ at position p of s, or 0
separatorAt(s, p) ==
  IF s[p] \in {",", ";"} THEN 1
  ELSE IF wordAt(s, p, <<"a", "n", "d">>) THEN 5
  ELSE IF wordAt(s, p, <<"o", "r">>) THEN 4
  ELSE 0

RECURSIVE splitFrom(_, _, _, _)
\* s.split(/[,;]|\sand\s|\sor\s/): the pieces between the leftmost,
\* non-overlapping matches; from is where the current piece starts
splitFrom(s, p, from, acc) ==
  IF p > Len(s) THEN Append(acc, SubSeq(s, from, Len(s)))
  ELSE LET n == separatorAt(s, p)
       IN  IF n = 0 THEN splitFrom(s, p + 1, from, acc)
           ELSE splitFrom(s, p + n, p + n, Append(acc, SubSeq(s, from, p - 1)))
split(s) == splitFrom(s, 1, 1, <<>>)

-----------------------------------------------------------------------------
(* QueryInterpreter                                                        *)

soundKeywords ==
  << <<"s", "p", "e", "e", "c", "h">>,
     <<"v", "o", "i", "c", "e">>,
     <<"t", "a", "l", "k", "i", "n", "g">>,
     <<"s", "p", "e", "a", "k", "i", "n", "g">>,
     <<"c", "o", "n", "v", "e", "r", "s", "a", "t", "i", "o", "n">>,
     <<"m", "u", "s", "i", "c">>,
     <<"s", "o", "n", "g">>,
     <<"m", "e", "l", "o", "d", "y">>,
     <<"i", "n", "s", "t", "r", "u", "m", "e", "n", "t">>,
     <<"g", "u", "i", "t", "a", "r">>,
     <<"p", "i", "a", "n", "o">>,
     <<"d", "r", "u", "m", "s">>,
     <<"n", "o", "i", "s", "e">>,
     <<"b", "a", "c", "k", "g", "r", "o", "u", "n", "d">>,
     <<"a", "m", "b", "i", "e", "n", "t">>,
     <<"c", "l", "a", "p", "p", "i", "n", "g">>,
     <<"a", "p", "p", "l", "a", "u", "s", "e">>,
     <<"f", "o", "o", "t", "s", "t", "e", "p", "s">>,
     <<"w", "a", "l", "k", "i", "n", "g">>,
     <<"d", "o", "g">>,
     <<"b", "a", "r", "k", "i", "n", "g">>,
     <<"a", "n", "i", "m", "a", "l">>,
     <<"b", "i", "r", "d">>,
     <<"c", "h", "i", "r", "p", "i", "n", "g">>,
     <<"c", "a", "r">>,
     <<"v", "e", "h", "i", "c", "l", "e">>,
     <<"e", "n", "g", "i", "n", "e">>,
     <<"t", "r", "a", "f", "f", "i", "c">>,
     <<"p", "h", "o", "n", "e">>,
     <<"r", "i", "n", "g", "i", "n", "g">>,
     <<"n", "o", "t", "i", "f", "i", "c", "a", "t", "i", "o", "n">>,
     <<"w", "a", "t", "e", "r">>,
     <<"f", "l", "o", "w", "i", "n", "g">>,
     <<"r", "a", "i", "n">>,
     <<"w", "i", "n", "d">>,
     <<"d", "o", "o", "r">>,
     <<"c", "l", "o", "s", "i", "n", "g">>,
     <<"o", "p", "e", "n", "i", "n", "g">>,
     <<"k", "n", "o", "c", "k">> >>

soundKeywordsBasic ==
  << <<"s", "p", "e", "e", "c", "h">>,
     <<"v", "o", "i", "c", "e">>,
     <<"t", "a", "l", "k", "i", "n", "g">>,
     <<"s", "p", "e", "a", "k", "i", "n", "g">>,
     <<"m", "u", "s", "i", "c">>,
     <<"s", "o", "n", "g">>,
     <<"m", "e", "l", "o", "d", "y">>,
     <<"i", "n", "s", "t", "r", "u", "m", "e", "n", "t">>,
     <<"d", "o", "g">>,
     <<"b", "a", "r", "k", "i", "n", "g">>,
     <<"a", "n", "i", "m", "a", "l">>,
     <<"b", "i", "r", "d">>,
     <<"c", "h", "i", "r", "p", "i", "n", "g">>,
     <<"c", "a", "r">>,
     <<"v", "e", "h", "i", "c", "l", "e">>,
     <<"e", "n", "g", "i", "n", "e">>,
     <<"t", "r", "a", "f", "f", "i", "c">>,
     <<"w", "a", "t", "e", "r">>,
     <<"f", "l", "o", "w", "i", "n", "g">>,
     <<"r", "a", "i", "n">>,
     <<"w", "i", "n", "d">>,
     <<"n", "o", "i", "s", "e">>,
     <<"b", "a", "c", "k", "g", "r", "o", "u", "n", "d">> >>

\* collectKeyword without the test that the keyword was pushed before
collectKeywordAgain(st, keyword) ==
  IF includes(st.q, keyword) THEN [st EXCEPT !.out = Append(st.out, keyword)] ELSE st

\* one step of the inner forEach: push keyword unless the sub-query lacks
\* it or it was pushed before (st.q is the sub-query, st.out the list)
collectKeyword(st, keyword) ==
  IF includes(st.q, keyword) /\ ~SeqContains(st.out, keyword)
  THEN [st EXCEPT !.out = Append(st.out, keyword)]
  ELSE st

\* collectQuery pushing the sub-query text whatever the scan found
collectQueryLiteral(keywords, extractedSounds, query) ==
  Append(FoldSeq(collectKeyword, [q |-> query, out |-> extractedSounds],
                 keywords, 1).out, query)

\* one step of the outer forEach: scan the vocabulary, then fall back to
\* the sub-query text while the list of extracted sounds is still empty
collectQuery(keywords, extractedSounds, query) ==
  LET scanned == FoldSeq(collectKeyword, [q |-> query, out |-> extractedSounds],
                         keywords, 1).out
  IN  IF Len(scanned) = 0 THEN Append(scanned, query) ELSE scanned

subQueries(cleanQuery) ==
  SelectSeq([i \in 1..Len(split(cleanQuery)) |-> trim(split(cleanQuery)[i])],
            LAMBDA q : Len(q) > 0)

parseQueryWith(keywords, query) ==
  LET cleanQuery == trim(toLowerCase(query))
      step(acc, q) == collectQuery(keywords, acc, q)
      extractedSounds == FoldSeq(step, <<>>, subQueries(cleanQuery), 1)
  IN  IF Len(extractedSounds) > 0 THEN extractedSounds ELSE <<cleanQuery>>

\* the vocabulary scanned from its last keyword to its first
parseQueryBackwards(query) ==
  parseQueryWith([i \in 1..Len(soundKeywords) |->
                    soundKeywords[Len(soundKeywords) + 1 - i]], query)

\* parseQuery of the enhanced build, of the simulated build and of the
\* separation utilities (one vocabulary), and of the amplified build
parseQuery(query) == parseQueryWith(soundKeywords, query)
parseQueryBasic(query) == parseQueryWith(soundKeywordsBasic, query)

-----------------------------------------------------------------------------
(* DetectedSoundMatcher                                                    *)

\* the synonym table of areSimilarSounds, in Object.entries order
synonyms ==
  << [key |-> <<"s", "p", "e", "e", "c", "h">>,
      values |-> <<<<"v", "o", "i", "c", "e">>, <<"t", "a", "l", "k", "i", "n", "g">>, <<"s", "p", "e", "a", "k", "i", "n", "g">>, <<"c", "o", "n", "v", "e", "r", "s", "a", "t", "i", "o", "n">>>>],
     [key |-> <<"m", "u", "s", "i", "c">>,
      values |-> <<<<"s", "o", "n", "g">>, <<"m", "e", "l", "o", "d", "y">>, <<"i", "n", "s", "t", "r", "u", "m", "e", "n", "t">>>>],
     [key |-> <<"n", "o", "i", "s", "e">>,
      values |-> <<<<"b", "a", "c", "k", "g", "r", "o", "u", "n", "d">>, <<"a", "m", "b", "i", "e", "n", "t">>>>],
     [key |-> <<"d", "o", "g">>,
      values |-> <<<<"b", "a", "r", "k", "i", "n", "g">>, <<"a", "n", "i", "m", "a", "l">>>>],
     [key |-> <<"c", "a", "r">>,
      values |-> <<<<"v", "e", "h", "i", "c", "l", "e">>, <<"e", "n", "g", "i", "n", "e">>>>],
     [key |-> <<"w", "a", "t", "e", "r">>,
      values |-> <<<<"f", "l", "o", "w", "i", "n", "g">>, <<"r", "a", "i", "n">>>>] >>

synonymsBasic ==
  << [key |-> <<"s", "p", "e", "e", "c", "h">>,
      values |-> <<<<"v", "o", "i", "c", "e">>, <<"t", "a", "l", "k", "i", "n", "g">>, <<"s", "p", "e", "a", "k", "i", "n", "g">>>>],
     [key |-> <<"m", "u", "s", "i", "c">>,
      values |-> <<<<"s", "o", "n", "g">>, <<"m", "e", "l", "o", "d", "y">>, <<"i", "n", "s", "t", "r", "u", "m", "e", "n", "t">>>>],
     [key |-> <<"d", "o", "g">>,
      values |-> <<<<"b", "a", "r", "k", "i", "n", "g">>, <<"a", "n", "i", "m", "a", "l">>>>],
     [key |-> <<"c", "a", "r">>,
      values |-> <<<<"v", "e", "h", "i", "c", "l", "e">>, <<"e", "n", "g", "i", "n", "e">>>>],
     [key |-> <<"w", "a", "t", "e", "r">>,
      values |-> <<<<"f", "l", "o", "w", "i", "n", "g">>, <<"r", "a", "i", "n">>>>] >>

inGroup(g, sound) ==
  includes(sound, g.key) \/ \E i \in 1..Len(g.values) : includes(sound, g.values[i])

areSimilarSoundsWith(table, sound1, sound2) ==
  \E i \in 1..Len(table) : inGroup(table[i], sound1) /\ inGroup(table[i], sound2)

areSimilarSounds(sound1, sound2) == areSimilarSoundsWith(synonyms, sound1, sound2)
areSimilarSoundsBasic(sound1, sound2) ==
  areSimilarSoundsWith(synonymsBasic, sound1, sound2)

\* the test the matcher, the scorers and the per-result filter share
overlaps(sound, target) ==
  \/ includes(toLowerCase(sound), toLowerCase(target))
  \/ includes(toLowerCase(target), toLowerCase(sound))

\* the inner forEach of matchQueryWithDetectedSounds (st.t is the target)
matchSound(st, sound) ==
  IF (overlaps(sound, st.t) \/ st.sim[st.t, sound]) /\ ~SeqContains(st.out, sound)
  THEN [st EXCEPT !.out = Append(st.out, sound)]
  ELSE st

matchWith(similar(_, _), targetSounds, detected) ==
  LET sim == [p \in {<<targetSounds[i], detected[j]>> :
                       i \in 1..Len(targetSounds), j \in 1..Len(detected)}
                |-> similar(p[1], p[2])]
      step(matches, target) ==
        FoldSeq(matchSound, [t |-> target, sim |-> sim, out |-> matches],
                detected, 1).out
  IN  FoldSeq(step, <<>>, targetSounds, 1)

matchQueryWithDetectedSounds(targetSounds, detected) ==
  matchWith(areSimilarSounds, targetSounds, detected)
matchQueryWithDetectedSoundsBasic(targetSounds, detected) ==
  matchWith(areSimilarSoundsBasic, targetSounds, detected)

\* the result record given every matched label, unfiltered
matchedForAll(target, matchedSounds) == matchedSounds

\* matchedSounds.filter(sound => ...) of the result record
matchedFor(target, matchedSounds) ==
  SelectSeq(matchedSounds, LAMBDA sound : overlaps(sound, target))

-----------------------------------------------------------------------------
(* SoundProfileCatalog                                                     *)

\* paramMap of getEnhancedSeparationParams, in Object.entries order
paramMap ==
  << [key |-> <<"s", "p", "e", "e", "c", "h">>, type |-> "harmonic",
      low |-> 85, high |-> 4000, emphasis |-> <<300, 1000, 2000>>, harmonicRatio |-> (7 * SCALE) \div 10],
     [key |-> <<"v", "o", "i", "c", "e">>, type |-> "harmonic",
      low |-> 85, high |-> 4000, emphasis |-> <<300, 1000, 2000>>, harmonicRatio |-> (7 * SCALE) \div 10],
     [key |-> <<"m", "u", "s", "i", "c">>, type |-> "harmonic",
      low |-> 20, high |-> 20000, emphasis |-> <<440, 880, 1760>>, harmonicRatio |-> (8 * SCALE) \div 10],
     [key |-> <<"d", "r", "u", "m", "s">>, type |-> "spectral",
      low |-> 20, high |-> 8000, emphasis |-> <<60, 200, 2000>>, harmonicRatio |-> NaN],
     [key |-> <<"c", "a", "r">>, type |-> "spectral",
      low |-> 20, high |-> 500, emphasis |-> <<50, 100, 200>>, harmonicRatio |-> NaN],
     [key |-> <<"e", "n", "g", "i", "n", "e">>, type |-> "spectral",
      low |-> 20, high |-> 500, emphasis |-> <<50, 100, 200>>, harmonicRatio |-> NaN],
     [key |-> <<"b", "i", "r", "d">>, type |-> "spectral",
      low |-> 1000, high |-> 8000, emphasis |-> <<2000, 4000, 6000>>, harmonicRatio |-> NaN],
     [key |-> <<"d", "o", "g">>, type |-> "spectral",
      low |-> 200, high |-> 3000, emphasis |-> <<500, 1000, 1500>>, harmonicRatio |-> NaN],
     [key |-> <<"w", "a", "t", "e", "r">>, type |-> "spectral",
      low |-> 100, high |-> 15000, emphasis |-> <<1000, 4000, 8000>>, harmonicRatio |-> NaN],
     [key |-> <<"w", "i", "n", "d">>, type |-> "spectral",
      low |-> 20, high |-> 2000, emphasis |-> <<50, 200, 1000>>, harmonicRatio |-> NaN] >>

defaultParams ==
  [key |-> <<>>, type |-> "spectral",
   low |-> 100, high |-> 8000, emphasis |-> <<1000>>, harmonicRatio |-> NaN]

\* paramMap of getSeparationParams, in Object.entries order
paramMapBasic ==
  << [key |-> <<"s", "p", "e", "e", "c", "h">>, type |-> "harmonic",
      low |-> 85, high |-> 4000, emphasis |-> <<300, 1000, 2000>>, gain |-> 4 * SCALE],
     [key |-> <<"v", "o", "i", "c", "e">>, type |-> "harmonic",
      low |-> 85, high |-> 4000, emphasis |-> <<300, 1000, 2000>>, gain |-> 4 * SCALE],
     [key |-> <<"m", "u", "s", "i", "c">>, type |-> "harmonic",
      low |-> 20, high |-> 20000, emphasis |-> <<440, 880, 1760>>, gain |-> 3 * SCALE],
     [key |-> <<"d", "o", "g">>, type |-> "burst",
      low |-> 200, high |-> 3000, emphasis |-> <<500, 1000, 1500>>, gain |-> 5 * SCALE],
     [key |-> <<"b", "a", "r", "k", "i", "n", "g">>, type |-> "burst",
      low |-> 200, high |-> 3000, emphasis |-> <<500, 1000, 1500>>, gain |-> 5 * SCALE],
     [key |-> <<"b", "i", "r", "d">>, type |-> "tonal",
      low |-> 1000, high |-> 8000, emphasis |-> <<2000, 4000, 6000>>, gain |-> 6 * SCALE],
     [key |-> <<"c", "h", "i", "r", "p", "i", "n", "g">>, type |-> "tonal",
      low |-> 1000, high |-> 8000, emphasis |-> <<2000, 4000, 6000>>, gain |-> 6 * SCALE],
     [key |-> <<"c", "a", "r">>, type |-> "noise",
      low |-> 20, high |-> 600, emphasis |-> <<50, 100, 200>>, gain |-> (45 * SCALE) \div 10],
     [key |-> <<"e", "n", "g", "i", "n", "e">>, type |-> "noise",
      low |-> 20, high |-> 600, emphasis |-> <<50, 100, 200>>, gain |-> (45 * SCALE) \div 10],
     [key |-> <<"w", "a", "t", "e", "r">>, type |-> "noise",
      low |-> 100, high |-> 15000, emphasis |-> <<1000, 4000, 8000>>, gain |-> (35 * SCALE) \div 10],
     [key |-> <<"w", "i", "n", "d">>, type |-> "noise",
      low |-> 20, high |-> 2000, emphasis |-> <<50, 200, 1000>>, gain |-> 3 * SCALE] >>

defaultParamsBasic ==
  [key |-> <<>>, type |-> "general",
   low |-> 100, high |-> 8000, emphasis |-> <<1000>>, gain |-> 3 * SCALE]

\* frequencyMap of getTargetFrequencyRange, in Object.entries order
frequencyMap ==
  << [key |-> <<"s", "p", "e", "e", "c", "h">>,
      low |-> 85, high |-> 4000, emphasis |-> 1000],
     [key |-> <<"v", "o", "i", "c", "e">>,
      low |-> 85, high |-> 4000, emphasis |-> 1000],
     [key |-> <<"t", "a", "l", "k", "i", "n", "g">>,
      low |-> 85, high |-> 4000, emphasis |-> 1000],
     [key |-> <<"s", "p", "e", "a", "k", "i", "n", "g">>,
      low |-> 85, high |-> 4000, emphasis |-> 1000],
     [key |-> <<"c", "o", "n", "v", "e", "r", "s", "a", "t", "i", "o", "n">>,
      low |-> 85, high |-> 4000, emphasis |-> 1000],
     [key |-> <<"m", "u", "s", "i", "c">>,
      low |-> 20, high |-> 20000, emphasis |-> 440],
     [key |-> <<"s", "o", "n", "g">>,
      low |-> 20, high |-> 20000, emphasis |-> 440],
     [key |-> <<"m", "e", "l", "o", "d", "y">>,
      low |-> 80, high |-> 8000, emphasis |-> 440],
     [key |-> <<"i", "n", "s", "t", "r", "u", "m", "e", "n", "t">>,
      low |-> 20, high |-> 15000, emphasis |-> 440],
     [key |-> <<"g", "u", "i", "t", "a", "r">>,
      low |-> 80, high |-> 5000, emphasis |-> 330],
     [key |-> <<"p", "i", "a", "n", "o">>,
      low |-> 27, high |-> 4200, emphasis |-> 523],
     [key |-> <<"d", "r", "u", "m", "s">>,
      low |-> 20, high |-> 15000, emphasis |-> 100],
     [key |-> <<"c", "l", "a", "p", "p", "i", "n", "g">>,
      low |-> 1000, high |-> 8000, emphasis |-> 2000],
     [key |-> <<"a", "p", "p", "l", "a", "u", "s", "e">>,
      low |-> 1000, high |-> 8000, emphasis |-> 2000],
     [key |-> <<"f", "o", "o", "t", "s", "t", "e", "p", "s">>,
      low |-> 20, high |-> 2000, emphasis |-> 200],
     [key |-> <<"w", "a", "l", "k", "i", "n", "g">>,
      low |-> 20, high |-> 2000, emphasis |-> 200],
     [key |-> <<"d", "o", "g">>,
      low |-> 200, high |-> 8000, emphasis |-> 500],
     [key |-> <<"b", "a", "r", "k", "i", "n", "g">>,
      low |-> 200, high |-> 8000, emphasis |-> 500],
     [key |-> <<"a", "n", "i", "m", "a", "l">>,
      low |-> 100, high |-> 8000, emphasis |-> 500],
     [key |-> <<"b", "i", "r", "d">>,
      low |-> 1000, high |-> 10000, emphasis |-> 3000],
     [key |-> <<"c", "h", "i", "r", "p", "i", "n", "g">>,
      low |-> 1000, high |-> 10000, emphasis |-> 3000],
     [key |-> <<"c", "a", "r">>,
      low |-> 20, high |-> 2000, emphasis |-> 80],
     [key |-> <<"v", "e", "h", "i", "c", "l", "e">>,
      low |-> 20, high |-> 2000, emphasis |-> 80],
     [key |-> <<"e", "n", "g", "i", "n", "e">>,
      low |-> 20, high |-> 2000, emphasis |-> 80],
     [key |-> <<"t", "r", "a", "f", "f", "i", "c">>,
      low |-> 20, high |-> 2000, emphasis |-> 200],
     [key |-> <<"n", "o", "i", "s", "e">>,
      low |-> 20, high |-> 20000, emphasis |-> 1000],
     [key |-> <<"b", "a", "c", "k", "g", "r", "o", "u", "n", "d">>,
      low |-> 20, high |-> 1000, emphasis |-> 200],
     [key |-> <<"a", "m", "b", "i", "e", "n", "t">>,
      low |-> 20, high |-> 1000, emphasis |-> 200],
     [key |-> <<"w", "a", "t", "e", "r">>,
      low |-> 100, high |-> 8000, emphasis |-> 1000],
     [key |-> <<"f", "l", "o", "w", "i", "n", "g">>,
      low |-> 100, high |-> 8000, emphasis |-> 1000],
     [key |-> <<"r", "a", "i", "n">>,
      low |-> 500, high |-> 15000, emphasis |-> 2000],
     [key |-> <<"w", "i", "n", "d">>,
      low |-> 20, high |-> 2000, emphasis |-> 100],
     [key |-> <<"d", "o", "o", "r">>,
      low |-> 100, high |-> 4000, emphasis |-> 500],
     [key |-> <<"p", "h", "o", "n", "e">>,
      low |-> 300, high |-> 3400, emphasis |-> 1000],
     [key |-> <<"r", "i", "n", "g", "i", "n", "g">>,
      low |-> 300, high |-> 4000, emphasis |-> 1000] >>

defaultFrequencyRange == [key |-> <<>>, low |-> 100, high |-> 8000, emphasis |-> 1000]

RECURSIVE lastMatch(_, _, _, _)
\* the scan keeping the last key that matches instead of returning at the
\* first
lastMatch(map, target, i, default) ==
  IF i > Len(map) THEN default
  ELSE lastMatch(map, target, i + 1,
                 IF includes(toLowerCase(target), map[i].key) THEN map[i] ELSE default)

RECURSIVE firstMatch(_, _, _, _)
\* for (const [key, params] of Object.entries(map)):
\*   if (target.toLowerCase().includes(key)) return params
firstMatch(map, target, i, default) ==
  IF i > Len(map) THEN default
  ELSE IF includes(toLowerCase(target), map[i].key) THEN map[i]
  ELSE firstMatch(map, target, i + 1, default)

getEnhancedSeparationParams(target) == firstMatch(paramMap, target, 1, defaultParams)
getSeparationParams(target) == firstMatch(paramMapBasic, target, 1, defaultParamsBasic)
getTargetFrequencyRange(target) ==
  firstMatch(frequencyMap, target, 1, defaultFrequencyRange)

-----------------------------------------------------------------------------
(* Download file name                                                      *)

RECURSIVE replaceEachSpace(_, _)
\* query.replace(/\s/g, '_'): one underscore for each white-space character
replaceEachSpace(s, inRun) ==
  IF s = <<>> THEN <<>>
  ELSE (IF isSpace(Head(s)) THEN <<"_">> ELSE <<Head(s)>>)
         \o replaceEachSpace(Tail(s), FALSE)

RECURSIVE replaceSpaces(_, _)
\* query.replace(/\s+/g, '_'): every maximal run of white space becomes
\* one underscore; inRun says the previous character was white space
replaceSpaces(s, inRun) ==
  IF s = <<>> THEN <<>>
  ELSE IF isSpace(Head(s))
       THEN (IF inRun THEN <<>> ELSE <<"_">>) \o replaceSpaces(Tail(s), TRUE)
       ELSE <<Head(s)>> \o replaceSpaces(Tail(s), FALSE)

\* the download attribute set by downloadExtracted
downloadName(query) ==
  <<"e", "x", "t", "r", "a", "c", "t", "e", "d", "_">>
    \o replaceSpaces(query, FALSE) \o <<".", "w", "a", "v">>

-----------------------------------------------------------------------------
(* SpectralSeparationEngine                                                *)
(* An AudioBuffer is [sampleRate, length, channels], channels a sequence   *)
(* of sample sequences of that length.  Indices are 0-based in the source  *)
(* and 1-based here: sample j of the source is element j + 1.              *)

fftSize == 2048
hopSize == fftSize \div 4
numBands == 8

numberOfChannels(buffer) == Len(buffer.channels)

\* createBuffer given one sample more than the input has
createBufferLonger(channels, length, sampleRate) ==
  [sampleRate |-> sampleRate, length |-> length + 1,
   channels |-> [c \in 1..channels |-> [k \in 1..(length + 1) |-> 0]]]

\* audioContext.createBuffer(channels, length, sampleRate): zero-filled
createBuffer(channels, length, sampleRate) ==
  [sampleRate |-> sampleRate, length |-> length,
   channels |-> [c \in 1..channels |-> [k \in 1..length |-> 0]]]

\* 0.5 - 0.5 * Math.cos(2 * Math.PI * j / (n - 1)) for sample j of an
\* n-sample segment.  It equals sin(PI * j / (n - 1)) squared; the sine is
\* taken by Bhaskara's rational formula 16u(1-u) / (5 - 4u(1-u)) (exact at
\* 0, 1/6, 1/2, 5/6 and 1, within 0.002 elsewhere).  n = 1 divides 0 by 0.
hann(j, n) ==
  IF n = 1 THEN NaN
  ELSE LET m == n - 1
           p == j * (m - j)
           s == Ratio(16 * p, 5 * m * m - 4 * p)
       IN  RDiv(s * s, SCALE)

\* windowed[j] = segment[j] * window
applyWindow(segment) ==
  [j \in 1..Len(segment) |-> FMul(segment[j], hann(j - 1, Len(segment)))]

\* (j / length) * (sampleRate / 2), kept as the exact fraction num / den
binFrequency(j, length, sampleRate) == [num |-> j * sampleRate, den |-> 2 * length]

isInTargetRange(frequency, freqRange) ==
  /\ frequency.num >= freqRange.low * frequency.den
  /\ frequency.num <= freqRange.high * frequency.den

\* Math.abs(frequency - emphFreq) < radius
isNear(frequency, emphFreq, radius) ==
  Abs(frequency.num - emphFreq * frequency.den) < radius * frequency.den

\* (radius - Math.abs(frequency - emphFreq)) / radius, for a near frequency
nearness(frequency, emphFreq, radius) ==
  Ratio(radius * frequency.den - Abs(frequency.num - emphFreq * frequency.den),
        radius * frequency.den)

\* Math.floor((freq * length) / (sampleRate / 2))
binOf(freq, length, sampleRate) == (2 * freq * length) \div sampleRate

\* for (j = 0; j < frame.length && i + j < outputData.length; j++)
\*   outputData[i + j] = frame[j]
writeFrame(outputData, i, frame) ==
  LET n == Min(Len(frame), Len(outputData) - i)
  IN  SubSeq(outputData, 1, i) \o SubSeq(frame, 1, n)
        \o SubSeq(outputData, i + n + 1, Len(outputData))

\* array.subarray(begin, end): the elements begin..end-1 of the array, in
\* the memory of the array itself
subarray(array, begin, end) ==
  [values |-> SubSeq(array, begin + 1, end), begin |-> begin, shares |-> TRUE]

\* array.slice(begin, end): a new typed array holding a copy of the elements
\* begin..end-1; shares tells whether an array shares the memory of the
\* array it was taken from at begin
slice(array, begin, end) ==
  [values |-> SubSeq(array, begin + 1, end), begin |-> begin, shares |-> FALSE]

\* the array a part was taken from, once values are stored in the elements
\* of the part
stored(array, part, values) ==
  IF part.shares
  THEN [k \in 1..Len(array) |->
          IF k > part.begin /\ k <= part.begin + Len(values)
          THEN values[k - part.begin] ELSE array[k]]
  ELSE array

\* the segment of the frame that starts at sample i
segmentAt(inputData, i) ==
  slice(inputData, i, Min(i + fftSize, Len(inputData)))

\* frameCount > 0 ? overallQuality / frameCount : 0.5
averageQuality(overallQuality, frameCount) ==
  IF frameCount > 0 THEN FDivN(overallQuality, frameCount) ELSE SCALE \div 2

(* ---- enhanced build: harmonic separation ---- *)

detectHarmonicContent(data, sampleRate, emphasisFreqs) ==
  LET add(harmonicScore, freq) ==
        LET bin == binOf(freq, Len(data), sampleRate)
        IN  IF bin < Len(data) THEN FAdd(harmonicScore, FAbs(data[bin + 1]))
            ELSE harmonicScore
  IN  FMin(SCALE, FDivN(FoldSeq(add, 0, emphasisFreqs, 1), Len(emphasisFreqs)))

harmonicMask(frequency, params, harmonicStrength) ==
  LET boost(mask, emphFreq) ==
        IF isNear(frequency, emphFreq, 100)
        THEN FMul(mask, SCALE + nearness(frequency, emphFreq, 100))
        ELSE mask
  IN  IF isInTargetRange(frequency, params)
      THEN FoldSeq(boost, FMul(harmonicStrength, params.harmonicRatio),
                   params.emphasis, 1)
      ELSE SCALE \div 10

harmonicFrame(windowed, params, sampleRate, harmonicStrength) ==
  [j \in 1..Len(windowed) |->
     FMul(windowed[j],
          FMin(SCALE, harmonicMask(binFrequency(j - 1, Len(windowed), sampleRate),
                                   params, harmonicStrength)))]

RECURSIVE harmonicLoop(_, _, _, _, _)
\* the frame loop from sample i on; st = [out, overallQuality, frameCount]
harmonicLoop(inputData, params, sampleRate, i, st) ==
  IF i >= Len(inputData) THEN st
  ELSE LET windowed == applyWindow(segmentAt(inputData, i).values)
           harmonicStrength ==
             detectHarmonicContent(windowed, sampleRate, params.emphasis)
       IN  harmonicLoop(inputData, params, sampleRate, i + hopSize,
             [out |-> writeFrame(st.out, i,
                        harmonicFrame(windowed, params, sampleRate, harmonicStrength)),
              overallQuality |-> FAdd(st.overallQuality, harmonicStrength),
              frameCount |-> st.frameCount + 1])

\* what a frame loop leaves: the output channel written and the quality
\* returned
loopResult(st) ==
  [out |-> st.out, quality |-> averageQuality(st.overallQuality, st.frameCount)]

applyHarmonicSeparation(inputData, outputData, params, sampleRate) ==
  loopResult(harmonicLoop(inputData, params, sampleRate, 0,
               [out |-> outputData, overallQuality |-> 0, frameCount |-> 0]))

(* ---- enhanced build: spectral masking ---- *)

RECURSIVE sumSquares(_, _, _)
\* for (i = from; i < to; i++) energy += data[i] * data[i]
\* (the range is summed by halves, which bounds the depth of the recursion)
sumSquares(data, from, to) ==
  IF from >= to THEN 0
  ELSE IF to = from + 1 THEN FMul(data[from + 1], data[from + 1])
  ELSE LET mid == (from + to) \div 2
       IN  FAdd(sumSquares(data, from, mid), sumSquares(data, mid, to))

calculateSpectralEnergy(data, sampleRate, freqRange) ==
  LET startBin == binOf(freqRange.low, Len(data), sampleRate)
      endBin == binOf(freqRange.high, Len(data), sampleRate)
  IN  FDivN(sumSquares(data, startBin, Min(endBin, Len(data))), endBin - startBin)

calculateAdaptiveMask(frequency, params, spectralEnergy) ==
  LET boost(baseMask, emphFreq) ==
        IF isNear(frequency, emphFreq, 200)
        THEN baseMask + nearness(frequency, emphFreq, 200) \div 2
        ELSE baseMask
      baseMask == FoldSeq(boost, (3 * SCALE) \div 10, params.emphasis, 1)
  IN  FMin(SCALE, FMul(baseMask, FAdd(SCALE \div 2, spectralEnergy)))

spectralFrame(windowed, params, sampleRate, spectralEnergy) ==
  [j \in 1..Len(windowed) |->
     LET frequency == binFrequency(j - 1, Len(windowed), sampleRate)
     IN  FMul(windowed[j],
              IF isInTargetRange(frequency, params)
              THEN calculateAdaptiveMask(frequency, params, spectralEnergy)
              ELSE (5 * SCALE) \div 100)]

RECURSIVE spectralLoop(_, _, _, _, _)
spectralLoop(inputData, params, sampleRate, i, st) ==
  IF i >= Len(inputData) THEN st
  ELSE LET windowed == applyWindow(segmentAt(inputData, i).values)
           spectralEnergy == calculateSpectralEnergy(windowed, sampleRate, params)
       IN  spectralLoop(inputData, params, sampleRate, i + hopSize,
             [out |-> writeFrame(st.out, i,
                        spectralFrame(windowed, params, sampleRate, spectralEnergy)),
              overallQuality |-> FAdd(st.overallQuality, spectralEnergy),
              frameCount |-> st.frameCount + 1])

applySpectralMasking(inputData, outputData, params, sampleRate) ==
  loopResult(spectralLoop(inputData, params, sampleRate, 0,
               [out |-> outputData, overallQuality |-> 0, frameCount |-> 0]))

(* ---- enhanced build: multi-band fallback ---- *)

divideToBands(data) ==
  LET bandSize == Len(data) \div numBands
  IN  [b \in 1..numBands |->
         slice(data, (b - 1) * bandSize, Min(b * bandSize, Len(data)))]

\* band[i] *= 0.8 in place; returns the band and its quality
processBand(band) ==
  LET scaled == [i \in 1..Len(band) |-> FMul(band[i], (8 * SCALE) \div 10)]
      add(quality, x) == FAdd(quality, FAbs(x))
  IN  [band |-> scaled, quality |-> FDivN(FoldSeq(add, 0, scaled, 1), Len(scaled))]

RECURSIVE concatBands(_, _)
concatBands(bands, b) ==
  IF b > Len(bands) THEN <<>> ELSE bands[b] \o concatBands(bands, b + 1)

\* output[pos++] = band[i] while pos < output.length
combineBands(bands, output) == writeFrame(output, 0, concatBands(bands, 1))

RECURSIVE storedBands(_, _, _, _)
\* the data the bands were taken from, once bands b.. are processed
storedBands(data, bands, done, b) ==
  IF b > Len(bands) THEN data
  ELSE storedBands(stored(data, bands[b], done[b].band), bands, done, b + 1)

\* out is the output array and input the input array after the call
applyAdvancedFiltering(inputData, outputData, params, sampleRate) ==
  LET bands == divideToBands(inputData)
      done == [b \in 1..numBands |-> processBand(bands[b].values)]
      add(totalQuality, r) == FAdd(totalQuality, r.quality)
  IN  [out |-> combineBands([b \in 1..numBands |-> done[b].band], outputData),
       quality |-> FDivN(FoldSeq(add, 0, done, 1), numBands),
       input |-> storedBands(inputData, bands, done, 1)]

(* ---- amplified build: frequency-based separation ---- *)

\* params.gain raised by (1 + (100 - distance) / 100 * 1.5) near each
\* emphasis frequency
amplifiedGain(frequency, params) ==
  LET boost(gain, emphFreq) ==
        IF isNear(frequency, emphFreq, 100)
        THEN FMul(gain, SCALE + (nearness(frequency, emphFreq, 100) * 3) \div 2)
        ELSE gain
  IN  FoldSeq(boost, params.gain, params.emphasis, 1)

amplifiedFrame(windowed, params, sampleRate) ==
  [j \in 1..Len(windowed) |->
     LET frequency == binFrequency(j - 1, Len(windowed), sampleRate)
     IN  FMul(windowed[j],
              IF isInTargetRange(frequency, params)
              THEN FMin(8 * SCALE, amplifiedGain(frequency, params))
              ELSE SCALE \div 10)]

\* outputData[i + j] += frame[j] * 0.5 while i + j < outputData.length
addFrame(outputData, i, frame) ==
  [k \in 1..Len(outputData) |->
     IF k > i /\ k - i <= Len(frame)
     THEN FAdd(outputData[k], FMul(frame[k - i], SCALE \div 2))
     ELSE outputData[k]]

RECURSIVE amplifiedLoop(_, _, _, _, _)
amplifiedLoop(inputData, params, sampleRate, i, out) ==
  IF i >= Len(inputData) THEN out
  ELSE amplifiedLoop(inputData, params, sampleRate, i + hopSize,
         addFrame(out, i,
           amplifiedFrame(applyWindow(segmentAt(inputData, i).values), params, sampleRate)))

RECURSIVE maxAbs(_, _, _)
\* maxAmplitude = Math.max(maxAmplitude, Math.abs(data[i])) for the samples
\* from + 1 .. to, starting from 0 (taken by halves, as sumSquares)
maxAbs(data, from, to) ==
  IF from >= to THEN 0
  ELSE IF to = from + 1 THEN FMax(0, FAbs(data[to]))
  ELSE LET mid == (from + to) \div 2
       IN  FMax(maxAbs(data, from, mid), maxAbs(data, mid, to))

\* if (maxAmplitude > 0) every sample is multiplied by 0.8 / maxAmplitude
\* (evaluated as sample * 0.8 / maxAmplitude to keep the fixed-point digits)
normalize(outputData) ==
  LET maxAmplitude == maxAbs(outputData, 0, Len(outputData))
  IN  IF FGt(maxAmplitude, 0)
      THEN [i \in 1..Len(outputData) |->
              RDiv(outputData[i] * ((8 * SCALE) \div 10), maxAmplitude)]
      ELSE outputData

applyFrequencyBasedSeparation(inputData, outputData, params, sampleRate) ==
  normalize(amplifiedLoop(inputData, params, sampleRate, 0, outputData))

(* ---- separation utilities: frequency filter ---- *)

\* Math.max(0.1, 1 - distanceFromEmphasis / maxDistance) inside the range,
\* 0.1 outside it
filterResponse(frequency, frequencyRange) ==
  LET maxDistance == Max(frequencyRange.emphasis - frequencyRange.low,
                         frequencyRange.high - frequencyRange.emphasis)
      distance == Abs(frequency.num - frequencyRange.emphasis * frequency.den)
  IN  IF isInTargetRange(frequency, frequencyRange)
      THEN Max(SCALE \div 10, SCALE - Ratio(distance, maxDistance * frequency.den))
      ELSE SCALE \div 10

filteredFrame(windowed, frequencyRange, sampleRate) ==
  [j \in 1..Len(windowed) |->
     FMul(windowed[j],
          filterResponse(binFrequency(j - 1, Len(windowed), sampleRate),
                         frequencyRange))]

RECURSIVE filterLoop(_, _, _, _, _)
\* the frames from sample i on: segment[j] *= window stores the windowed
\* samples in the segment itself; out is the output array and input the
\* input array after the loop
filterLoop(inputData, frequencyRange, sampleRate, i, out) ==
  IF i >= Len(inputData) THEN [out |-> out, input |-> inputData]
  ELSE filterLoop(stored(inputData, segmentAt(inputData, i),
                         applyWindow(segmentAt(inputData, i).values)),
                  frequencyRange, sampleRate, i + hopSize,
                  writeFrame(out, i,
                    filteredFrame(applyWindow(segmentAt(inputData, i).values),
                                  frequencyRange, sampleRate)))

applyFrequencyFilter(inputData, outputData, frequencyRange, sampleRate) ==
  filterLoop(inputData, frequencyRange, sampleRate, 0, outputData)

-----------------------------------------------------------------------------
(* AudioCodec: the 44-byte RIFF/WAVE header and 16-bit mono PCM data       *)

charCodeAt ==
  [R |-> 82, I |-> 73, F |-> 70, W |-> 87, A |-> 65, V |-> 86, E |-> 69,
   f |-> 102, m |-> 109, t |-> 116, d |-> 100, a |-> 97] @@ (" " :> 32)

\* writeString(offset, string): one byte per character
writeString(string) == [i \in 1..Len(string) |-> charCodeAt[string[i]]]

RECURSIVE littleEndian(_, _)
\* the n low-order bytes of the non-negative integer v, lowest first
littleEndian(v, n) ==
  IF n = 0 THEN <<>> ELSE <<v % 256>> \o littleEndian(v \div 256, n - 1)

setUint32(v) == littleEndian(v, 4)
setUint16(v) == littleEndian(v % 65536, 2)

\* Math.max(-1, Math.min(1, x))
clampSample(x) == FMax(0 - SCALE, FMin(SCALE, x))

\* the conversion with Math.round(sample * 0x7FFF)
toInt16Rounded(sample) == IF IsNaN(sample) THEN 0 ELSE RDiv(sample * 32767, SCALE)

\* ToInt16(sample * 0x7FFF): NaN becomes 0, any other number loses its
\* fraction (truncation toward zero)
toInt16(sample) == IF IsNaN(sample) THEN 0 ELSE TDiv(sample * 32767, SCALE)

\* view.setInt16(offset, v, true): two's complement, low byte first
setInt16(v) == littleEndian(IF v < 0 THEN v + 65536 ELSE v, 2)

\* for each sample i, in order: view.setInt16(offset, sample * 0x7FFF, true)
pcmData(channelData) ==
  [b \in 1..(2 * Len(channelData)) |->
     setInt16(toInt16(clampSample(channelData[(b + 1) \div 2])))[2 - (b % 2)]]

\* the encoder declaring the channel count of the buffer in the header
audioBufferToWavChannels(buffer) ==
  writeString(<<"R", "I", "F", "F">>)
    \o setUint32(36 + buffer.length * 2)
    \o writeString(<<"W", "A", "V", "E">>)
    \o writeString(<<"f", "m", "t", " ">>)
    \o setUint32(16)
    \o setUint16(1)
    \o setUint16(numberOfChannels(buffer))
    \o setUint32(buffer.sampleRate)
    \o setUint32(buffer.sampleRate * 2)
    \o setUint16(2)
    \o setUint16(16)
    \o writeString(<<"d", "a", "t", "a">>)
    \o setUint32(buffer.length * 2)
    \o pcmData(buffer.channels[1])

\* audioBufferToWav / audioBufferToBlob: the bytes of the blob
audioBufferToWav(buffer) ==
  writeString(<<"R", "I", "F", "F">>)
    \o setUint32(36 + buffer.length * 2)
    \o writeString(<<"W", "A", "V", "E">>)
    \o writeString(<<"f", "m", "t", " ">>)
    \o setUint32(16)
    \o setUint16(1)
    \o setUint16(1)
    \o setUint32(buffer.sampleRate)
    \o setUint32(buffer.sampleRate * 2)
    \o setUint16(2)
    \o setUint16(16)
    \o writeString(<<"d", "a", "t", "a">>)
    \o setUint32(buffer.length * 2)
    \o pcmData(buffer.channels[1])

-----------------------------------------------------------------------------
(* Per-target separation                                                   *)

\* the body of the channel loop of performEnhancedSeparation; input is the
\* input array after the call: the harmonic and the spectral algorithm
\* store nothing in the segments they take, nor in the input array
separateChannel(params, inputData, outputData, sampleRate) ==
  IF params.type = "harmonic"
  THEN applyHarmonicSeparation(inputData, outputData, params, sampleRate)
         @@ [method |-> "Harmonic-Percussive Separation", input |-> inputData]
  ELSE IF params.type = "spectral"
  THEN applySpectralMasking(inputData, outputData, params, sampleRate)
         @@ [method |-> "Spectral Masking", input |-> inputData]
  ELSE applyAdvancedFiltering(inputData, outputData, params, sampleRate)
         @@ [method |-> "Advanced Frequency Filtering"]

\* what performEnhancedSeparation returns after the channel loop:
\* outputBuffer is the buffer handed to the encoder, audioUrl the bytes of
\* the blob the returned URL names
\* audioBuffer is the input buffer as it is after the separation
enhancedOutcome(st) ==
  [audioUrl |-> audioBufferToWav(st.buffer), quality |-> st.separationQuality,
   method |-> st.method, outputBuffer |-> st.buffer, audioBuffer |-> st.audioBuffer]

\* the separation keeping the quality and the method of the first channel
enhancedSeparationFirst(separationParams, audioBuffer) ==
  LET empty == createBuffer(numberOfChannels(audioBuffer), audioBuffer.length,
                            audioBuffer.sampleRate)
      step(st, channel) ==
        LET r == separateChannel(separationParams, st.audioBuffer.channels[channel],
                                 st.buffer.channels[channel], audioBuffer.sampleRate)
        IN  [buffer |-> [st.buffer EXCEPT !.channels[channel] = r.out],
             audioBuffer |-> [st.audioBuffer EXCEPT !.channels[channel] = r.input],
             separationQuality |-> IF channel = 1 THEN r.quality
                                   ELSE st.separationQuality,
             method |-> IF channel = 1 THEN r.method ELSE st.method]
  IN  enhancedOutcome(
        FoldSeq(step, [buffer |-> empty, audioBuffer |-> audioBuffer,
                       separationQuality |-> 0, method |-> ""],
                [c \in 1..numberOfChannels(audioBuffer) |-> c], 1))

\* the separation with the parameters of a term
enhancedSeparation(separationParams, audioBuffer) ==
  LET empty == createBuffer(numberOfChannels(audioBuffer), audioBuffer.length,
                            audioBuffer.sampleRate)
      step(st, channel) ==
        LET r == separateChannel(separationParams, st.audioBuffer.channels[channel],
                                 st.buffer.channels[channel], audioBuffer.sampleRate)
        IN  [buffer |-> [st.buffer EXCEPT !.channels[channel] = r.out],
             audioBuffer |-> [st.audioBuffer EXCEPT !.channels[channel] = r.input],
             separationQuality |-> r.quality, method |-> r.method]
  IN  enhancedOutcome(
        FoldSeq(step, [buffer |-> empty, audioBuffer |-> audioBuffer,
                       separationQuality |-> 0, method |-> ""],
                [c \in 1..numberOfChannels(audioBuffer) |-> c], 1))

\* performEnhancedSeparation with the parameters of the target only when
\* the detector reported a matching label, the default ones otherwise
performEnhancedSeparationDetected(audioBuffer, target, matchedSounds) ==
  enhancedSeparation(
    getEnhancedSeparationParams(IF matchedSounds = <<>> THEN <<>> ELSE target),
    audioBuffer)

performEnhancedSeparation(audioBuffer, target, matchedSounds) ==
  enhancedSeparation(getEnhancedSeparationParams(target), audioBuffer)

\* audioBufferToWav(outputBuffer), the buffer it was given, and the input
\* buffer as it is after the separation
encoded(outputBuffer, audioBuffer) ==
  [audioUrl |-> audioBufferToWav(outputBuffer), outputBuffer |-> outputBuffer,
   audioBuffer |-> audioBuffer]

\* applyFrequencyBasedSeparation stores nothing in the segments it takes,
\* nor in the input array
performAudioSeparation(audioBuffer, target, matchedSounds) ==
  LET separationParams == getSeparationParams(target)
      empty == createBuffer(numberOfChannels(audioBuffer), audioBuffer.length,
                            audioBuffer.sampleRate)
  IN  encoded(
        [empty EXCEPT !.channels =
           [c \in 1..numberOfChannels(audioBuffer) |->
              applyFrequencyBasedSeparation(audioBuffer.channels[c], empty.channels[c],
                                            separationParams, audioBuffer.sampleRate)]],
        audioBuffer)

\* the channels after the filter: the output and the input buffer
filtered(empty, audioBuffer, channels) ==
  encoded([empty EXCEPT !.channels = [c \in DOMAIN channels |-> channels[c].out]],
          [audioBuffer EXCEPT !.channels = [c \in DOMAIN channels |-> channels[c].input]])

extractAudioByFrequency(audioBuffer, target, matchedSounds) ==
  LET frequencyRange == getTargetFrequencyRange(target)
      empty == createBuffer(numberOfChannels(audioBuffer), audioBuffer.length,
                            audioBuffer.sampleRate)
  IN  filtered(empty, audioBuffer,
        [c \in 1..numberOfChannels(audioBuffer) |->
           applyFrequencyFilter(audioBuffer.channels[c], empty.channels[c],
                                frequencyRange, audioBuffer.sampleRate)])

-----------------------------------------------------------------------------
(* ConfidenceScorer                                                        *)

someOverlap(target, matchedSounds) ==
  \E i \in 1..Len(matchedSounds) : overlaps(matchedSounds[i], target)

calculateEnhancedConfidence(target, matchedSounds, separationQuality) ==
  LET base == (4 * SCALE) \div 10
      matched == IF someOverlap(target, matchedSounds)
                 THEN base + (3 * SCALE) \div 10 ELSE base
      boosted == FAdd(matched, FMul(separationQuality, (4 * SCALE) \div 10))
      adjusted ==
        IF target \in {<<"s", "p", "e", "e", "c", "h">>, <<"v", "o", "i", "c", "e">>,
                       <<"m", "u", "s", "i", "c">>}
        THEN FAdd(boosted, SCALE \div 10) ELSE boosted
  IN  FMin((95 * SCALE) \div 100, adjusted)

wellDefined ==
  { <<"s", "p", "e", "e", "c", "h">>, <<"v", "o", "i", "c", "e">>,
    <<"m", "u", "s", "i", "c">>, <<"d", "o", "g">>,
    <<"b", "a", "r", "k", "i", "n", "g">>, <<"b", "i", "r", "d">>,
    <<"c", "h", "i", "r", "p", "i", "n", "g">>, <<"c", "a", "r">>,
    <<"e", "n", "g", "i", "n", "e">> }

calculateConfidence(target, matchedSounds) ==
  LET base == SCALE \div 2
      matched == IF someOverlap(target, matchedSounds)
                 THEN base + (3 * SCALE) \div 10 ELSE base
      boosted == IF target \in wellDefined
                 THEN matched + (15 * SCALE) \div 100 ELSE matched
  IN  FMin((9 * SCALE) \div 10, boosted)

\* random stands for the value Math.random() returns, in [0, 1)
calculateSeparationConfidence(target, matchedSounds, random) ==
  LET base == SCALE \div 2
      matched == IF someOverlap(target, matchedSounds)
                 THEN base + (3 * SCALE) \div 10 ELSE base
      specific == IF Len(target) > 5 THEN matched + SCALE \div 10 ELSE matched
  IN  FMin((95 * SCALE) \div 100, specific + FMul(random, SCALE \div 10))

\* the quality word a description starts with
qualityDescriptor(confidence, high, good) ==
  IF FGt(confidence, high) THEN "high-quality"
  ELSE IF FGt(confidence, good) THEN "good-quality"
  ELSE "moderate-quality"

generateEnhancedDescription(target, confidence, method) ==
  [descriptor |-> qualityDescriptor(confidence, (8 * SCALE) \div 10, (6 * SCALE) \div 10),
   target |-> target, method |-> method, confidence |-> confidence]

generateDescriptionBasic(target, confidence) ==
  [descriptor |-> qualityDescriptor(confidence, (75 * SCALE) \div 100, (6 * SCALE) \div 10),
   target |-> target]

generateDescription(target, confidence) ==
  [descriptor |-> qualityDescriptor(confidence, (8 * SCALE) \div 10, (6 * SCALE) \div 10),
   target |-> target]

-----------------------------------------------------------------------------
(* The components.  A File is [name, type, buffer]: type is its MIME type  *)
(* and buffer the AudioBuffer decodeAudioData yields for its bytes, Null   *)
(* when the decoder rejects them.                                          *)

AudioPrefix == <<"a", "u", "d", "i", "o", "/">>

\* file.type.startsWith('audio/')
isAudioType(type) ==
  Len(type) >= Len(AudioPrefix) /\ SubSeq(type, 1, Len(AudioPrefix)) = AudioPrefix

NotesFile ==
  [name |-> "notes.txt", type |-> <<"t", "e", "x", "t", "/", "p", "l", "a", "i", "n">>, buffer |-> Null]
BrokenFile ==
  [name |-> "broken.wav", type |-> <<"a", "u", "d", "i", "o", "/", "w", "a", "v">>, buffer |-> Null]
LoudFile ==
  [name |-> "loud.wav", type |-> <<"a", "u", "d", "i", "o", "/", "w", "a", "v">>,
   buffer |-> Some([sampleRate |-> 44100, length |-> 3,
               channels |-> << <<0, 12 * SCALE, SCALE \div 2>> >>])]
StereoFile ==
  [name |-> "stereo.ogg", type |-> <<"a", "u", "d", "i", "o", "/", "o", "g", "g">>,
   buffer |-> Some([sampleRate |-> 48000, length |-> 2,
               channels |-> << <<0, 0>>, <<SCALE \div 2, 0 - SCALE>> >>])]

Files == {NotesFile, BrokenFile, LoudFile, StereoFile}

\* what the user types into the query box
Queries ==
  { <<>>, <<" ", " ">>, <<"d", "o", "g", " ", "b", "a", "r", "k", "i", "n", "g">>, <<"S", "p", "e", "e", "c", "h", ",", " ", "M", "u", "s", "i", "c">>,
    <<"c", "a", "t", "'", "s", " ", " ", "m", "e", "o", "w">>, <<",", ";">> }

\* what the detector reported
DetectedLists == { <<>>, <<<<"D", "o", "g">>, <<"m", "u", "s", "i", "c">>>> }

\* values Math.random() returns
Randoms == {0, SCALE - 1}

SmartBuilds == {"enhanced", "amplified", "simulated"}
Builds == SmartBuilds \cup {"separator"}

Idle == [pc |-> "idle"]

-----------------------------------------------------------------------------
(* SmartAudioSeparator                                                     *)

\* the toasts a run may raise before the log of them is full
MaxToasts == 3

toast(title) == Append(toasts, title)

\* the base falling with the position of the target in the list
progressBaseRemaining(index, targetSounds, span) ==
  40 * SCALE + RDiv((Len(targetSounds) - index) * span * SCALE, Len(targetSounds))

\* 40 + (targetSounds.indexOf(target) / targetSounds.length) * span; the
\* list has no term twice, so indexOf is the position in the loop
progressBase(index, targetSounds, span) ==
  40 * SCALE + RDiv((index - 1) * span * SCALE, Len(targetSounds))

\* const currentAudioFile = localAudioFile || audioFile
currentAudioFile == IF localAudioFile # Null THEN localAudioFile ELSE audioFile

\* const currentAudioUrl = localAudioUrl || audioUrl
currentAudioUrl == IF localAudioUrl # Null THEN localAudioUrl ELSE audioUrl

\* handleFileUpload, on the state of the component; the file input is
\* rendered while no file is current
fileChosen(file) ==
  /\ build \in SmartBuilds
  /\ currentAudioFile = Null
  /\ req.pc \in {"idle", "decoding"} \/ build = "simulated"
  /\ IF isAudioType(file.type)
     THEN /\ localAudioFile' = Some(file)
          /\ localAudioUrl' = Some(file.name)
          /\ separationResults' = <<>>
          /\ playing' = {}
          /\ toasts' = toast("Audio File Loaded")
     ELSE UNCHANGED <<localAudioFile, localAudioUrl, separationResults, playing,
                      toasts>>
  /\ UNCHANGED <<build, audioFile, audioUrl, playingIndex, detectedSounds, textQuery, isProcessing, processingProgress,
                 mixedAudio, separatedAudios, download, req>>

handleFileUpload(file) == fileChosen(file) /\ UNCHANGED fnVars

\* onChange of the query box, rendered once audio is loaded, on the state
\* of the component
queryTyped(value) ==
  /\ \/ build \in SmartBuilds /\ currentAudioUrl # Null
     \/ build = "separator" /\ mixedAudio # Null
  /\ req.pc \in {"idle", "decoding", "waiting"} \/ build = "simulated"
  /\ textQuery' = value
  /\ UNCHANGED <<build, audioFile, audioUrl, playingIndex, playing,
                 detectedSounds, localAudioFile, localAudioUrl,
                 separationResults, isProcessing, processingProgress, mixedAudio,
                 separatedAudios, download, req, toasts>>

setTextQuery(value) == queryTyped(value) /\ UNCHANGED fnVars

\* the part of processTextQuery that runs before its first await
\* the values setProcessingProgress is given from the click to the first
\* await, in order; the last one is what is rendered at the await
startProgress(targetSounds) ==
  CASE build = "enhanced" -> <<0, 15 * SCALE, 25 * SCALE>>
    [] build = "amplified" -> <<0, 20 * SCALE, 40 * SCALE>>
    [] OTHER -> <<0, 20 * SCALE, 40 * SCALE, progressBase(1, targetSounds, 40)>>

startRequest(query) ==
  LET targetSounds == IF build = "amplified" THEN parseQueryBasic(query)
                      ELSE parseQuery(query)
      matchedSounds ==
        IF build = "amplified"
        THEN matchQueryWithDetectedSoundsBasic(targetSounds, detectedSounds)
        ELSE matchQueryWithDetectedSounds(targetSounds, detectedSounds)
      frame == [pc |-> IF build = "simulated" THEN "separating" ELSE "decoding",
                query |-> query, file |-> ValueOf(localAudioFile),
                targetSounds |-> targetSounds,
                matchedSounds |-> matchedSounds, audioBuffer |-> Null,
                results |-> <<>>, index |-> 1]
  IN  /\ isProcessing' = TRUE
      /\ processingProgress' =
           startProgress(targetSounds)[Len(startProgress(targetSounds))]
      /\ req' = frame
      /\ toasts' = <<>>

\* if (!localAudioFile || !localAudioUrl) return, the first statement of
\* processTextQuery and its only return before setIsProcessing(true)
returnsEarly == localAudioFile = Null \/ localAudioUrl = Null

\* click on the Extract button, on the state of the component: the button
\* is rendered once audio is loaded, and disabled while the trimmed query is
\* empty or a request is processing
extractClicked ==
  /\ build \in SmartBuilds
  /\ currentAudioUrl # Null
  /\ trim(textQuery) # <<>>
  /\ ~isProcessing
  /\ IF returnsEarly
     THEN UNCHANGED <<isProcessing, processingProgress, req, toasts>>
     ELSE startRequest(textQuery)
  /\ UNCHANGED <<build, audioFile, audioUrl, playingIndex, playing,
                 detectedSounds, localAudioFile, localAudioUrl, textQuery,
                 separationResults, mixedAudio, separatedAudios, download>>

processTextQuery == extractClicked /\ UNCHANGED fnVars

\* the catch publishing the results gathered before the failure
processingFailedPartial ==
  /\ toasts' = toast("Processing Failed")
  /\ isProcessing' = FALSE
  /\ separationResults' = req.results
  /\ playing' = {}
  /\ req' = Idle
  /\ UNCHANGED processingProgress

\* the catch clearing the results and the progress of the component
processingFailedCleared ==
  /\ toasts' = toast("Processing Failed")
  /\ isProcessing' = FALSE
  /\ separationResults' = <<>>
  /\ playing' = {}
  /\ processingProgress' = 0
  /\ req' = Idle

\* catch and finally of processTextQuery
processingFailed ==
  /\ toasts' = toast("Processing Failed")
  /\ isProcessing' = FALSE
  /\ req' = Idle
  /\ UNCHANGED <<separationResults, processingProgress, playing>>

\* await loadAudioFile(localAudioFile) settles
loadAudioFile(throws) ==
  /\ build \in {"enhanced", "amplified"}
  /\ req.pc = "decoding"
  /\ IF throws \/ req.file.buffer = Null
     THEN processingFailed
     ELSE /\ req' = [req EXCEPT !.pc = "separating",
                                !.audioBuffer = req.file.buffer]
          /\ processingProgress' =
               IF build = "enhanced" THEN progressBase(1, req.targetSounds, 50)
               ELSE 60 * SCALE
          /\ UNCHANGED <<separationResults, isProcessing, toasts, playing>>
  /\ UNCHANGED <<build, audioFile, audioUrl, playingIndex, detectedSounds, localAudioFile, localAudioUrl, textQuery,
                 mixedAudio, separatedAudios, download, fnVars>>

\* results.push({...}) of the enhanced build
enhancedResult(target, matchedSounds, r, confidence) ==
  [query |-> target, extractedAudio |-> r.audioUrl, confidence |-> confidence,
   description |-> generateEnhancedDescription(target, confidence, r.method),
   matchedSounds |-> matchedFor(target, matchedSounds),
   processingMethod |-> r.method]

\* results.push({...}) of the amplified build
amplifiedResult(target, matchedSounds, separationResult, confidence) ==
  [query |-> target, extractedAudio |-> separationResult, confidence |-> confidence,
   description |-> generateDescriptionBasic(target, confidence),
   matchedSounds |-> matchedFor(target, matchedSounds)]

\* results.push({...}) of the simulated build; the audio is synthesized
\* for the target, whatever the file holds
simulatedResult(target, matchedSounds, confidence) ==
  [query |-> target, extractedAudio |-> [synthesized |-> target],
   confidence |-> confidence,
   description |-> generateDescription(target, confidence),
   matchedSounds |-> matchedFor(target, matchedSounds)]

\* the score of the enhanced build, from what the separation returned
enhancedScored(target, matchedSounds, r) ==
  enhancedResult(target, matchedSounds, r,
                 calculateEnhancedConfidence(target, matchedSounds, r.quality))

\* the body of the for loop of processTextQuery for one target: the
\* separation, the score and the pushed SeparationResult
separationResult(target, random) ==
  CASE build = "enhanced" ->
         enhancedScored(target, req.matchedSounds,
                        performEnhancedSeparation(ValueOf(req.audioBuffer), target,
                                                  req.matchedSounds))
    [] build = "amplified" ->
         amplifiedResult(target, req.matchedSounds,
                         performAudioSeparation(ValueOf(req.audioBuffer), target,
                                                req.matchedSounds).audioUrl,
                         calculateConfidence(target, req.matchedSounds))
    [] OTHER ->
         simulatedResult(target, req.matchedSounds,
           calculateSeparationConfidence(target, req.matchedSounds, random))

\* the end of a turn of the loop: the next turn begins, or after the last
\* target the results are published and the handler ends
endOfTurn(results) ==
  IF req.index < Len(req.targetSounds)
  THEN /\ req' = [req EXCEPT !.results = results, !.index = req.index + 1]
       /\ processingProgress' =
            CASE build = "enhanced" ->
                   progressBase(req.index + 1, req.targetSounds, 50)
              [] build = "simulated" ->
                   progressBase(req.index + 1, req.targetSounds, 40)
              [] OTHER -> processingProgress
       /\ UNCHANGED <<separationResults, isProcessing, toasts, playing>>
  ELSE /\ separationResults' = results
       /\ playing' = {}
       /\ processingProgress' = 100 * SCALE
       /\ toasts' = toast("Separation Complete")
       /\ isProcessing' = FALSE
       /\ req' = Idle

\* the turn of the loop putting its result before the earlier ones
processTargetUnshift(throws, random) ==
  /\ build \in SmartBuilds
  /\ req.pc = "separating"
  /\ IF throws
     THEN processingFailed
     ELSE endOfTurn(<<separationResult(req.targetSounds[req.index], random)>>
                      \o req.results)
  /\ UNCHANGED <<build, audioFile, audioUrl, playingIndex, detectedSounds, localAudioFile, localAudioUrl, textQuery,
                 mixedAudio, separatedAudios, download, fnVars>>

\* one turn of the for loop of processTextQuery, from the await of the
\* separation to the next one, or to the end of the handler after the last
\* target; throws says the separation rejects (new AudioContext() and
\* createBuffer can throw)
processTarget(throws, random) ==
  /\ build \in SmartBuilds
  /\ req.pc = "separating"
  /\ IF throws
     THEN processingFailed
     ELSE endOfTurn(Append(req.results,
                           separationResult(req.targetSounds[req.index], random)))
  /\ UNCHANGED <<build, audioFile, audioUrl, playingIndex, detectedSounds, localAudioFile, localAudioUrl, textQuery,
                 mixedAudio, separatedAudios, download, fnVars>>

\* click on the Download button of result number index
downloadExtracted(index) ==
  /\ build \in SmartBuilds
  /\ index \in 1..Len(separationResults)
  /\ req.pc \in {"idle", "decoding"} \/ build = "simulated"
  /\ download' = Some(downloadName(separationResults[index].query))
  /\ UNCHANGED <<build, audioFile, audioUrl, playingIndex, playing,
                 detectedSounds, localAudioFile, localAudioUrl, textQuery,
                 separationResults, isProcessing, processingProgress, mixedAudio,
                 separatedAudios, req, toasts, fnVars>>

-----------------------------------------------------------------------------
(* AudioSeparator                                                          *)

\* handleMixedAudioUpload; the file input is always rendered
handleMixedAudioUpload(file) ==
  /\ build = "separator"
  /\ Len(toasts) < MaxToasts
  /\ IF isAudioType(file.type)
     THEN /\ mixedAudio' = Some(file.name)
          /\ toasts' = toast("Mixed Audio Loaded")
     ELSE UNCHANGED <<mixedAudio, toasts>>
  /\ UNCHANGED <<build, audioFile, audioUrl, playingIndex, playing,
                 detectedSounds, localAudioFile, localAudioUrl, textQuery,
                 separationResults, isProcessing, processingProgress,
                 separatedAudios, download, req, fnVars>>

\* click on the Separate button: simulateAudioSeparation(textQuery) up to
\* its await of the two-second timer
simulateAudioSeparation ==
  /\ build = "separator"
  /\ mixedAudio # Null
  /\ trim(textQuery) # <<>>
  /\ ~isProcessing
  /\ isProcessing' = TRUE
  /\ req' = [pc |-> "waiting", query |-> textQuery]
  /\ toasts' = <<>>
  /\ UNCHANGED <<build, audioFile, audioUrl, playingIndex, playing,
                 detectedSounds, localAudioFile, localAudioUrl, textQuery,
                 separationResults, processingProgress, mixedAudio,
                 separatedAudios, download, fnVars>>

RECURSIVE splitComma(_, _, _, _)
\* s.split(',')
splitComma(s, p, from, acc) ==
  IF p > Len(s) THEN Append(acc, SubSeq(s, from, Len(s)))
  ELSE IF s[p] = "," THEN splitComma(s, p + 1, p + 1, Append(acc, SubSeq(s, from, p - 1)))
  ELSE splitComma(s, p + 1, from, acc)

\* query.toLowerCase().split(',').map(q => q.trim()).filter(q => q.length > 0)
commaQueries(query) ==
  LET parts == splitComma(toLowerCase(query), 1, 1, <<>>)
  IN  SelectSeq([i \in 1..Len(parts) |-> trim(parts[i])], LAMBDA q : Len(q) > 0)

\* the rest of simulateAudioSeparation, after the timer: throws says
\* generateSimulatedAudio rejects for some query (nothing catches it);
\* random is what Math.random() returns for the confidences
simulationDone(throws, random) ==
  /\ build = "separator"
  /\ req.pc = "waiting"
  /\ LET queries == commaQueries(req.query)
         separatedResults ==
           [i \in 1..Len(queries) |->
              [query |-> queries[i],
               confidence |-> FMul(random, (4 * SCALE) \div 10) + (6 * SCALE) \div 10,
               audioUrl |-> [synthesized |-> queries[i]]]]
     IN  IF throws /\ Len(queries) > 0
         THEN /\ req' = Idle
              /\ UNCHANGED <<separatedAudios, isProcessing, toasts>>
         ELSE /\ separatedAudios' = separatedResults
              /\ isProcessing' = FALSE
              /\ toasts' = toast("Separation Complete")
              /\ req' = Idle
  /\ UNCHANGED <<build, audioFile, audioUrl, playingIndex, playing,
                 detectedSounds, localAudioFile, localAudioUrl, textQuery,
                 separationResults, processingProgress, mixedAudio, download, fnVars>>

\* click on the Download button of separated source number index
downloadSeparated(index) ==
  /\ build = "separator"
  /\ index \in 1..Len(separatedAudios)
  /\ download' = Some(<<"s", "e", "p", "a", "r", "a", "t", "e", "d", "_">>
                          \o replaceSpaces(separatedAudios[index].query, FALSE)
                          \o <<".", "w", "a", "v">>)
  /\ UNCHANGED <<build, audioFile, audioUrl, playingIndex, playing,
                 detectedSounds, localAudioFile, localAudioUrl, textQuery,
                 separationResults, isProcessing, processingProgress, mixedAudio,
                 separatedAudios, req, toasts, fnVars>>

-----------------------------------------------------------------------------
(* The specification of the components                                     *)

\* the parent passes neither a file nor its URL
NoFile == audioFile = Null /\ audioUrl = Null

\* the state right after the component mounts: useState(audioFile || null),
\* useState(audioUrl || null) and the initial values of the other states
Mounted ==
  /\ localAudioFile = audioFile
  /\ localAudioUrl = audioUrl
  /\ playingIndex = Null
  /\ playing = {}
  /\ textQuery = <<>>
  /\ separationResults = <<>>
  /\ isProcessing = FALSE
  /\ processingProgress = 0
  /\ mixedAudio = Null
  /\ separatedAudios = <<>>
  /\ download = Null
  /\ req = Idle
  /\ toasts = <<>>

NoFunction == fnIn = Null /\ fnOut = Null /\ fnPc = "idle"

Init ==
  /\ build \in Builds
  /\ detectedSounds \in IF build = "separator" THEN {<<>>} ELSE DetectedLists
  /\ NoFile
  /\ Mounted
  /\ NoFunction

Next ==
  \/ \E file \in Files : handleFileUpload(file)
  \/ \E value \in Queries : setTextQuery(value)
  \/ processTextQuery
  \/ \E throws \in BOOLEAN : loadAudioFile(throws)
  \/ \E throws \in BOOLEAN, random \in Randoms : processTarget(throws, random)
  \/ \E index \in 1..Len(separationResults) : downloadExtracted(index)
  \/ \E file \in Files : handleMixedAudioUpload(file)
  \/ simulateAudioSeparation
  \/ \E throws \in BOOLEAN, random \in Randoms : simulationDone(throws, random)
  \/ \E index \in 1..Len(separatedAudios) : downloadSeparated(index)

Spec == Init /\ [][Next]_vars

-----------------------------------------------------------------------------
(* The end-to-end scenario: SmartAudioSeparator is given a mono recording  *)
(* of silence at 44100 Hz and the query "dog barking".  Five seconds are   *)
(* 220500 samples, 427 frames, all of 2048 samples but the last four, of   *)
(* 1876, 1364, 852 and 340; the recording here holds the first frame and   *)
(* those last four.                                                        *)

ScenarioSamples == 2388

DogBarking == <<"d", "o", "g", " ", "b", "a", "r", "k", "i", "n", "g">>

ScenarioFile ==
  [name |-> "silence.wav", type |-> <<"a", "u", "d", "i", "o", "/", "w", "a", "v">>,
   buffer |-> Some([sampleRate |-> 44100, length |-> ScenarioSamples,
                    channels |-> << [k \in 1..ScenarioSamples |-> 0] >>])]

InitScenario ==
  /\ build \in {"enhanced", "amplified"}
  /\ detectedSounds \in DetectedLists
  /\ NoFile
  /\ Mounted
  /\ NoFunction

NextScenario ==
  \/ handleFileUpload(ScenarioFile)
  \/ setTextQuery(DogBarking)
  \/ processTextQuery
  \/ \E throws \in BOOLEAN : loadAudioFile(throws)
  \/ \E throws \in BOOLEAN : processTarget(throws, 0)
  \/ \E index \in 1..Len(separationResults) : downloadExtracted(index)

SpecScenario == InitScenario /\ [][NextScenario]_vars

-----------------------------------------------------------------------------
(* The pure functions, each applied once to an argument drawn from a       *)
(* bounded set                                                             *)

\* the pieces a query text is made of, and how many a text may hold
Tokens ==
  { <<"d", "o", "g">>, <<"b", "a", "r", "k", "i", "n", "g">>, <<"S", "p", "e", "e", "c", "h">>, <<"c", "a", "t", "'", "s">>,
    <<" ">>, <<",">>, <<" ", "a", "n", "d", " ">> }
MaxTokens == 3

RECURSIVE Texts(_)
Texts(n) ==
  IF n = 0 THEN {<<>>}
  ELSE Texts(n - 1) \cup {t \o w : t \in Texts(n - 1), w \in Tokens}

Unmounted ==
  /\ build = "enhanced"
  /\ detectedSounds = <<>>
  /\ NoFile
  /\ Mounted

InitParse ==
  /\ Unmounted
  /\ fnIn \in [query : Texts(MaxTokens)]
  /\ fnOut = Null
  /\ fnPc = "ready"

applyParseQuery ==
  /\ fnPc = "ready"
  /\ fnOut' = [parseQuery |-> parseQuery(fnIn.query),
               parseQueryBasic |-> parseQueryBasic(fnIn.query)]
  /\ fnPc' = "applied"
  /\ UNCHANGED <<compVars, fnIn>>

SpecParse == InitParse /\ [][applyParseQuery]_vars

\* the longest signal, and the sample values signals are made of
MaxSamples == 3
EncoderSamples ==
  {0, 1, 0 - 1, SCALE \div 2, SCALE, 0 - (3 * SCALE) \div 2, NaN}
EngineSamples == {0, SCALE \div 2, 0 - SCALE, 12 * SCALE}
SampleRates == {8000, 44100, 48000}

Signals(values) == UNION {[1..n -> values] : n \in 1..MaxSamples}

\* the buffers over a first channel: mono, stereo with a silent second
\* channel, and stereo with the first channel repeated in the second
Layouts(signal) ==
  { <<signal>>, <<signal, [k \in 1..Len(signal) |-> 0]>>, <<signal, signal>> }

Buffers(signals, rates) ==
  UNION { { [sampleRate |-> rate, length |-> Len(signal), channels |-> channels] :
              rate \in rates, channels \in Layouts(signal) } :
          signal \in signals }

\* a loud signal of two frames, the second one of three samples
TailedSignal ==
  [k \in 1..(hopSize + 3) |-> IF k % 2 = 0 THEN 12 * SCALE ELSE 0 - SCALE]

InitEncode ==
  /\ Unmounted
  /\ fnIn \in [buffer : Buffers(Signals(EncoderSamples), SampleRates)]
  /\ fnOut = Null
  /\ fnPc = "ready"

applyAudioBufferToWav ==
  /\ fnPc = "ready"
  /\ fnOut' = [bytes |-> audioBufferToWav(fnIn.buffer)]
  /\ fnPc' = "applied"
  /\ UNCHANGED <<compVars, fnIn>>

SpecEncode == InitEncode /\ [][applyAudioBufferToWav]_vars

\* the lists of target terms and of detected labels handed to the matchers
TargetLists ==
  { <<>>, << <<"d", "o", "g">> >>, << <<"b", "a", "r", "k", "i", "n", "g">> >>,
    << <<"d", "o", "g">>, <<"b", "a", "r", "k", "i", "n", "g">> >>,
    << <<"s", "p", "e", "e", "c", "h">>, <<"m", "u", "s", "i", "c">> >>,
    << <<"v", "o", "i", "c", "e">> >>, << <<"n", "o", "i", "s", "e">> >>,
    << <<"c", "a", "t">> >> }
LabelLists ==
  { <<>>, << <<"D", "o", "g">> >>, << <<"d", "o", "g">> >>,
    << <<"D", "o", "g">>, <<"m", "u", "s", "i", "c">> >>,
    << <<"d", "o", "g">>, <<"d", "o", "g">> >>,
    << <<"b", "i", "g", " ", "d", "o", "g", "s">>, <<"a", "n", "i", "m", "a", "l">> >>,
    << <<"S", "p", "e", "e", "c", "h">>, <<"s", "o", "n", "g">> >>,
    << <<"a", "m", "b", "i", "e", "n", "t">>, <<"c", "a">> >>,
    << <<"m", "u", "s", "i", "c">>, <<"v", "o", "i", "c", "e", " ", "m", "u", "s", "i", "c">> >> }

InitMatch ==
  /\ Unmounted
  /\ fnIn \in [targetSounds : TargetLists, detected : LabelLists]
  /\ fnOut = Null
  /\ fnPc = "ready"

\* what the loop of processTextQuery draws from the matched labels for
\* each target: the matched labels of its result and its confidence, here
\* for a separation of quality one half
resultsOf(targetSounds, matchedSounds) ==
  [i \in 1..Len(targetSounds) |->
     [matchedSounds |-> matchedFor(targetSounds[i], matchedSounds),
      confidence |-> calculateEnhancedConfidence(targetSounds[i], matchedSounds,
                                                 SCALE \div 2)]]

applyMatchQueryWithDetectedSounds ==
  /\ fnPc = "ready"
  /\ fnOut' = [matchQueryWithDetectedSounds |->
                 matchQueryWithDetectedSounds(fnIn.targetSounds, fnIn.detected),
               matchQueryWithDetectedSoundsBasic |->
                 matchQueryWithDetectedSoundsBasic(fnIn.targetSounds, fnIn.detected),
               results |->
                 resultsOf(fnIn.targetSounds,
                           matchQueryWithDetectedSounds(fnIn.targetSounds, fnIn.detected))]
  /\ fnPc' = "applied"
  /\ UNCHANGED <<compVars, fnIn>>

SpecMatch == InitMatch /\ [][applyMatchQueryWithDetectedSounds]_vars

\* the terms looked up in the catalogues
LookupTerms ==
  { <<"d", "o", "g">>, <<"b", "a", "r", "k", "i", "n", "g">>,
    <<"D", "o", "g", " ", "B", "a", "r", "k", "i", "n", "g">>,
    <<"e", "n", "g", "i", "n", "e", " ", "o", "f", " ", "a", " ", "c", "a", "r">>,
    <<"b", "i", "r", "d", " ", "s", "o", "n", "g">>,
    <<"W", "A", "T", "E", "R">>, <<"s", "p", "e", "e", "c", "h">>,
    <<"w", "i", "n", "d">>, <<"c", "a", "t">>, <<"C", "a", "r">>, <<>> }

InitLookup ==
  /\ Unmounted
  /\ fnIn \in [target : LookupTerms, other : LookupTerms]
  /\ fnOut = Null
  /\ fnPc = "ready"

\* the profile of a term in each of the three catalogues
profiles(target) ==
  [getEnhancedSeparationParams |-> getEnhancedSeparationParams(target),
   getSeparationParams |-> getSeparationParams(target),
   getTargetFrequencyRange |-> getTargetFrequencyRange(target)]

applyLookup ==
  /\ fnPc = "ready"
  /\ fnOut' = [target \in {fnIn.target, fnIn.other} |-> profiles(target)]
  /\ fnPc' = "applied"
  /\ UNCHANGED <<compVars, fnIn>>

SpecLookup == InitLookup /\ [][applyLookup]_vars

\* the handlers of user input, each applied once to the mounted component:
\* a file is chosen, then a query is typed, then Extract is clicked
InitInput ==
  /\ build \in SmartBuilds
  /\ detectedSounds \in DetectedLists
  /\ NoFile
  /\ Mounted
  /\ fnIn \in [file : Files, query : Queries]
  /\ fnOut = Null
  /\ fnPc = "ready"

applyHandleFileUpload ==
  /\ fnPc = "ready"
  /\ fileChosen(fnIn.file)
  /\ fnPc' = "uploaded"
  /\ UNCHANGED <<fnIn, fnOut>>

applySetTextQuery ==
  /\ fnPc = "uploaded"
  /\ queryTyped(fnIn.query)
  /\ fnPc' = "typed"
  /\ UNCHANGED <<fnIn, fnOut>>

applyProcessTextQuery ==
  /\ fnPc = "typed"
  /\ extractClicked
  /\ fnPc' = "clicked"
  /\ UNCHANGED <<fnIn, fnOut>>

NextInput == applyHandleFileUpload \/ applySetTextQuery \/ applyProcessTextQuery

SpecInput == InitInput /\ [][NextInput]_vars

\* target terms: catalogue keys of each kind, and one the catalogues lack
Targets ==
  { <<"d", "o", "g">>, <<"s", "p", "e", "e", "c", "h">>, <<"m", "u", "s", "i", "c">>, <<"b", "a", "r", "k", "i", "n", "g">>,
    <<"c", "a", "t">> }

\* channels of two frames: silence but for one sample that the first frame
\* alone covers and one that both frames cover
FrameSamples == 700
TwoFrameSignals ==
  { [k \in 1..length |->
       IF k = hopSize \div 2 THEN early ELSE IF k = hopSize + 50 THEN late ELSE 0] :
    length \in {FrameSamples - 100, FrameSamples},
    early \in {SCALE, 0 - SCALE}, late \in {SCALE \div 2, 12 * SCALE} }

InitFrames ==
  /\ Unmounted
  /\ fnIn \in [inputData : TwoFrameSignals, sampleRate : SampleRates, target : Targets]
  /\ fnOut = Null
  /\ fnPc = "ready"

\* the output channel each engine leaves for an input channel, from a
\* zero-filled output channel
channelOutputs(inputData, outputData, sampleRate, target) ==
  [separateChannel |->
     separateChannel(getEnhancedSeparationParams(target), inputData, outputData,
                     sampleRate).out,
   applyFrequencyBasedSeparation |->
     applyFrequencyBasedSeparation(inputData, outputData, getSeparationParams(target),
                                   sampleRate),
   applyFrequencyFilter |->
     applyFrequencyFilter(inputData, outputData, getTargetFrequencyRange(target),
                          sampleRate).out]

applyFrames ==
  /\ fnPc = "ready"
  /\ fnOut' = channelOutputs(fnIn.inputData, [k \in 1..Len(fnIn.inputData) |-> 0],
                             fnIn.sampleRate, fnIn.target)
  /\ fnPc' = "applied"
  /\ UNCHANGED <<compVars, fnIn>>

SpecFrames == InitFrames /\ [][applyFrames]_vars

InitSeparate ==
  /\ Unmounted
  /\ fnIn \in [buffer : Buffers(Signals(EngineSamples) \cup {TailedSignal}, {44100}),
              target : Targets]
  /\ fnOut = Null
  /\ fnPc = "ready"

\* the scores of the three scorers for one list of detected labels
confidences(target, detected, quality) ==
  [calculateEnhancedConfidence |->
     calculateEnhancedConfidence(
       target, matchQueryWithDetectedSounds(<<target>>, detected), quality),
   calculateConfidence |->
     calculateConfidence(
       target, matchQueryWithDetectedSoundsBasic(<<target>>, detected)),
   calculateSeparationConfidence |->
     [random \in Randoms |->
        calculateSeparationConfidence(
          target, matchQueryWithDetectedSounds(<<target>>, detected), random)]]

\* the three separations of a buffer for a target, with the labels the
\* matcher of each keeps of those the detector reported
separations(audioBuffer, target, detected) ==
  [performEnhancedSeparation |->
     performEnhancedSeparation(
       audioBuffer, target, matchQueryWithDetectedSounds(<<target>>, detected)),
   performAudioSeparation |->
     performAudioSeparation(
       audioBuffer, target, matchQueryWithDetectedSoundsBasic(<<target>>, detected)),
   extractAudioByFrequency |->
     extractAudioByFrequency(
       audioBuffer, target, matchQueryWithDetectedSounds(<<target>>, detected))]

\* the multi-band fallback on the first channel, with the default parameters
advancedFiltering(audioBuffer) ==
  applyAdvancedFiltering(audioBuffer.channels[1],
                         [k \in 1..audioBuffer.length |-> 0],
                         defaultParams, audioBuffer.sampleRate)

\* what one separation hands over when nothing was detected, the scores it
\* leads to, and what it hands over for each list of detected labels
separated(undetected, detected, fallback, target) ==
  [performEnhancedSeparation |-> undetected.performEnhancedSeparation,
   performAudioSeparation |-> undetected.performAudioSeparation,
   extractAudioByFrequency |-> undetected.extractAudioByFrequency,
   confidence |->
     [labels \in DetectedLists |->
        confidences(target, labels, undetected.performEnhancedSeparation.quality)],
   detected |-> detected,
   applyAdvancedFiltering |-> fallback]

applySeparation ==
  /\ fnPc = "ready"
  /\ fnOut' = separated(separations(fnIn.buffer, fnIn.target, <<>>),
                        [labels \in DetectedLists |->
                           separations(fnIn.buffer, fnIn.target, labels)],
                        advancedFiltering(fnIn.buffer),
                        fnIn.target)
  /\ fnPc' = "applied"
  /\ UNCHANGED <<compVars, fnIn>>

SpecSeparate == InitSeparate /\ [][applySeparation]_vars

-----------------------------------------------------------------------------
(* Properties                                                              *)

Applied == fnPc = "applied"

\* a number in [0, 0.95]
InUnitRange(confidence) ==
  ~IsNaN(confidence) /\ confidence >= 0 /\ confidence <= (95 * SCALE) \div 100

\* the number of samples a WAV blob of the encoder holds
SampleCount(bytes) == (Len(bytes) - 44) \div 2

Published ==
  req.pc = "idle" /\ toasts # <<>> /\ toasts[Len(toasts)] = "Separation Complete"

ExtractedDog == <<"e", "x", "t", "r", "a", "c", "t", "e", "d", "_", "d", "o", "g", ".", "w", "a", "v">>
ExtractedBarking == <<"e", "x", "t", "r", "a", "c", "t", "e", "d", "_", "b", "a", "r", "k", "i", "n", "g", ".", "w", "a", "v">>
ExtractedDogBarking == <<"e", "x", "t", "r", "a", "c", "t", "e", "d", "_", "d", "o", "g", "_", "b", "a", "r", "k", "i", "n", "g", ".", "w", "a", "v">>

\* C1 as claimed: for the mono 44100 Hz recording of silence and the query
\* "dog barking", a request publishes exactly one result, whose signal has
\* the sample count of the input, whose confidence is in [0, 0.95] and whose
\* download is named extracted_dog_barking.wav.
C1_OneResult ==
  /\ Published =>
       /\ Len(separationResults) = 1
       /\ \A i \in 1..Len(separationResults) :
            /\ SampleCount(separationResults[i].extractedAudio) = ScenarioSamples
            /\ InUnitRange(separationResults[i].confidence)
  /\ download # Null => ValueOf(download) = ExtractedDogBarking

\* C1 amended: the request publishes exactly two results, for "dog" and for
\* "barking" in that order; each signal has the sample count of the input
\* and a confidence in [0, 0.95]; the downloads are named extracted_dog.wav
\* and extracted_barking.wav.
C1_TwoResults ==
  /\ Published =>
       /\ Len(separationResults) = 2
       /\ separationResults[1].query = <<"d", "o", "g">>
       /\ separationResults[2].query = <<"b", "a", "r", "k", "i", "n", "g">>
       /\ \A i \in 1..Len(separationResults) :
            /\ SampleCount(separationResults[i].extractedAudio) = ScenarioSamples
            /\ InUnitRange(separationResults[i].confidence)
  /\ download # Null => ValueOf(download) \in {ExtractedDog, ExtractedBarking}

C1_Witness ==
  /\ Published
  /\ Len(separationResults) = 2
  /\ download = Some(ExtractedBarking)

NoRepeat(list) == \A i, j \in 1..Len(list) : list[i] = list[j] => i = j

\* C2: for every query that is not empty after trimming, parseQuery (with
\* either vocabulary) returns at least one term and no term twice.
C2_NonEmptyNoRepeat ==
  Applied /\ trim(fnIn.query) # <<>> =>
    \A list \in {fnOut.parseQuery, fnOut.parseQueryBasic} :
      Len(list) >= 1 /\ NoRepeat(list)

C2_Witness ==
  /\ Applied
  /\ fnIn.query = <<"d", "o", "g", ",", "d", "o", "g">>
  /\ fnOut.parseQuery = << <<"d", "o", "g">> >>

\* C3 as claimed: whatever the target, the detected labels and the quality
\* the engine hands over, each scorer returns a number in [0, 0.95].
C3_ConfidenceInRange ==
  Applied =>
    \A detected \in DetectedLists :
      /\ InUnitRange(fnOut.confidence[detected].calculateEnhancedConfidence)
      /\ InUnitRange(fnOut.confidence[detected].calculateConfidence)
      /\ \A random \in Randoms :
           InUnitRange(fnOut.confidence[detected].calculateSeparationConfidence[random])

\* no sample of the buffer has a magnitude above 1
Conditioned(buffer) ==
  \A c \in 1..Len(buffer.channels) :
    \A k \in 1..Len(buffer.channels[c]) : ~FGt(FAbs(buffer.channels[c][k]), SCALE)

\* C4 as claimed: whatever the input, no sample of the signal the separation
\* hands to the encoder has a magnitude above 1.
C4_ConditionedOutput ==
  Applied =>
    /\ Conditioned(fnOut.performEnhancedSeparation.outputBuffer)
    /\ Conditioned(fnOut.performAudioSeparation.outputBuffer)

SameShape(output, input) ==
  /\ Len(output.channels) = Len(input.channels)
  /\ \A c \in 1..Len(input.channels) :
       Len(output.channels[c]) = Len(input.channels[c])

\* C5: for every input and target, the extracted signal has as many
\* channels as the input, and each channel as many samples as the input's.
C5_SameShape ==
  Applied =>
    /\ SameShape(fnOut.performEnhancedSeparation.outputBuffer, fnIn.buffer)
    /\ SameShape(fnOut.performAudioSeparation.outputBuffer, fnIn.buffer)
    /\ SameShape(fnOut.extractAudioByFrequency.outputBuffer, fnIn.buffer)

C5_Witness ==
  /\ Applied
  /\ fnIn.buffer.channels = <<TailedSignal, TailedSignal>>
  /\ Len(fnOut.performEnhancedSeparation.outputBuffer.channels[2]) = hopSize + 3

\* the unsigned little-endian integers at a byte offset
U16(bytes, offset) == bytes[offset + 1] + 256 * bytes[offset + 2]
U32(bytes, offset) == U16(bytes, offset) + 65536 * U16(bytes, offset + 2)

\* the four bytes at a byte offset
Tag(bytes, offset) == SubSeq(bytes, offset + 1, offset + 4)

\* C6: for N samples at rate R, whatever the channel count, the encoder
\* emits 44 + 2N bytes: "RIFF", 36 + 2N, "WAVE", "fmt ", 16, format 1, one
\* channel, R, byte rate 2R, block align 2, 16 bits, "data", 2N, the
\* numbers little-endian at offsets 4, 16, 20, 22, 24, 28, 32, 34 and 40.
C6_Header ==
  Applied =>
    LET bytes == fnOut.bytes
        N == fnIn.buffer.length
        R == fnIn.buffer.sampleRate
    IN  /\ Len(bytes) = 44 + 2 * N
        /\ \A b \in 1..Len(bytes) : bytes[b] \in 0..255
        /\ Tag(bytes, 0) = <<82, 73, 70, 70>>
        /\ U32(bytes, 4) = 36 + 2 * N
        /\ Tag(bytes, 8) = <<87, 65, 86, 69>>
        /\ Tag(bytes, 12) = <<102, 109, 116, 32>>
        /\ U32(bytes, 16) = 16
        /\ U16(bytes, 20) = 1
        /\ U16(bytes, 22) = 1
        /\ U32(bytes, 24) = R
        /\ U32(bytes, 28) = 2 * R
        /\ U16(bytes, 32) = 2
        /\ U16(bytes, 34) = 16
        /\ Tag(bytes, 36) = <<100, 97, 116, 97>>
        /\ U32(bytes, 40) = 2 * N

C6_Witness ==
  /\ Applied
  /\ Len(fnIn.buffer.channels) = 2
  /\ fnIn.buffer.length = MaxSamples
  /\ fnIn.buffer.sampleRate = 48000
  /\ Len(fnOut.bytes) = 44 + 2 * MaxSamples

\* the signed 16-bit integer written for sample number i (from 1)
Word(bytes, i) ==
  LET u == U16(bytes, 44 + 2 * (i - 1)) IN IF u >= 32768 THEN u - 65536 ELSE u

\* s clamped to [-1, 1] and multiplied by 32767, in thousandths
Scaled(s) == 32767 * (IF s > SCALE THEN SCALE ELSE IF s < 0 - SCALE THEN 0 - SCALE ELSE s)

\* C7 as claimed: each sample s is written as the integer nearest to s
\* clamped to [-1, 1] times 32767.
C7_Nearest ==
  Applied =>
    \A i \in 1..fnIn.buffer.length :
      LET s == fnIn.buffer.channels[1][i]
      IN  ~IsNaN(s) => 2 * Abs(SCALE * Word(fnOut.bytes, i) - Scaled(s)) <= SCALE

\* C7 amended: each sample s is written as s clamped to [-1, 1] times 32767
\* with its fraction dropped (the integer next to it toward zero), and a
\* sample that is not a number is written as 0.
C7_TowardZero ==
  Applied =>
    \A i \in 1..fnIn.buffer.length :
      LET s == fnIn.buffer.channels[1][i]
          w == SCALE * Word(fnOut.bytes, i)
      IN  IF IsNaN(s) THEN w = 0
          ELSE /\ (w >= 0 /\ Scaled(s) >= 0) \/ (w <= 0 /\ Scaled(s) <= 0)
               /\ Abs(w) <= Abs(Scaled(s))
               /\ Abs(Scaled(s)) - Abs(w) < SCALE

C7_Witness ==
  /\ Applied
  /\ fnIn.buffer.channels[1] = <<0 - 1, NaN, SCALE \div 2>>
  /\ Word(fnOut.bytes, 3) = 16383

\* the text with each maximal run of characters of the class replaced by
\* one underscore
Underscored(text, class(_)) ==
  LET first == SelectSeq([i \in 1..Len(text) |-> i],
                         LAMBDA i : ~(class(text[i]) /\ i > 1 /\ class(text[i - 1])))
  IN  [k \in 1..Len(first) |-> IF class(text[first[k]]) THEN "_" ELSE text[first[k]]]

Alphanumeric ==
  {"a", "b", "c", "d", "e", "f", "g", "h", "i", "j", "k", "l", "m", "n", "o", "p",
   "q", "r", "s", "t", "u", "v", "w", "x", "y", "z",
   "0", "1", "2", "3", "4", "5", "6", "7", "8", "9"}

NotAlphanumeric(c) == c \notin Alphanumeric \cup DOMAIN LowerOf

FileNamed(stem) == <<"e", "x", "t", "r", "a", "c", "t", "e", "d", "_">> \o stem \o <<".", "w", "a", "v">>

\* a click on Download has set the download attribute to that of a result
\* whose term, rewritten with the class, is the stem of the name
DownloadsAs(class(_)) ==
  build \in SmartBuilds /\ download' # download =>
    \E index \in 1..Len(separationResults) :
      download' = Some(FileNamed(Underscored(separationResults[index].query, class)))

\* C8 as claimed: the download of a result for term t is named extracted_,
\* then t with every run of non-alphanumeric characters replaced by one
\* underscore, then .wav.
C8_NonAlphanumericRuns == [][DownloadsAs(NotAlphanumeric)]_vars

\* C8 amended: the download of a result for term t is named extracted_,
\* then t with every run of white space replaced by one underscore (every
\* other character kept), then .wav.
C8_WhiteSpaceRuns == [][DownloadsAs(isSpace)]_vars

C8_Witness == download = Some(<<"e", "x", "t", "r", "a", "c", "t", "e", "d", "_", "c", "a", "t", "'", "s", "_", "m", "e", "o", "w", ".", "w", "a", "v">>)

\* how many "Processing Failed" toasts the log holds
Failures(log) == Cardinality({i \in 1..Len(log) : log[i] = "Processing Failed"})

InFlight == build \in SmartBuilds /\ req.pc \in {"decoding", "separating"}

\* the step ends the request with the whole batch: a result for each
\* target, in order, and no failure
EndsComplete ==
  /\ req.pc = "separating"
  /\ req.index = Len(req.targetSounds)
  /\ Len(separationResults') = Len(req.targetSounds)
  /\ \A i \in 1..Len(req.targetSounds) :
       separationResults'[i].query = req.targetSounds[i]
  /\ Failures(toasts') = 0

\* the step ends the request with nothing published and one failure
EndsAborted ==
  /\ separationResults' = separationResults
  /\ Failures(toasts') = 1
  /\ toasts'[Len(toasts')] = "Processing Failed"

\* C9: a request of SmartAudioSeparator publishes nothing until it ends; it
\* ends either with the whole batch or aborted, with no result published
\* (whatever targets were completed), no target left in process and one
\* failure toast; it ends aborted whenever the decoder rejects the file or
\* the request ends before its last target.
C9_AbortsBatch ==
  [][InFlight =>
       /\ req'.pc # "idle" => separationResults' = separationResults
       /\ req'.pc = "idle" => EndsComplete \/ EndsAborted
       /\ req'.pc = "idle" /\ (req.pc = "decoding" \/ req.index < Len(req.targetSounds))
            => EndsAborted
       /\ req.pc = "decoding" /\ req.file.buffer = Null /\ req'.pc # "decoding"
            => req'.pc = "idle" /\ EndsAborted]_vars

\* a request of the enhanced build failed on its second target of two
C9_Witness ==
  /\ build = "enhanced"
  /\ req.pc = "idle"
  /\ toasts = <<"Processing Failed">>
  /\ processingProgress = 65 * SCALE
  /\ separationResults = <<>>

\* C10 as claimed: every request that started ends with isProcessing =
\* false, in SmartAudioSeparator and in AudioSeparator: when no handler is
\* in flight, isProcessing is false.
C10_EndsNotProcessing == req.pc = "idle" => isProcessing = FALSE

\* the input is one the component rejects: a file whose MIME type is not
\* audio (no file is loaded then), or a query that is empty once trimmed
Rejected ==
  \/ fnPc = "uploaded" /\ ~isAudioType(fnIn.file.type)
  \/ fnPc = "typed" /\ trim(textQuery) = <<>>

\* the last toast tells the user of an error
ErrorSurfaced ==
  toasts # <<>> /\ toasts[Len(toasts)] \notin {"Audio File Loaded", "Separation Complete"}

\* C11 as claimed: when the chosen file is not audio (so that no file is
\* loaded) or the query is empty after trimming, the error is surfaced to the
\* user, no processing step runs, and the file, the URL, the results,
\* isProcessing and the progress are left as they were.
C11_RejectionSurfaced ==
  Rejected =>
    /\ ErrorSurfaced
    /\ req = Idle /\ ~isProcessing /\ processingProgress = 0
    /\ separationResults = <<>>
    /\ IF isAudioType(fnIn.file.type)
       THEN localAudioFile = Some(fnIn.file) /\ localAudioUrl = Some(fnIn.file.name)
       ELSE localAudioFile = Null /\ localAudioUrl = Null

\* the bytes and the signal of each of the three separations
Extracted(r) ==
  [performEnhancedSeparation |->
     <<r.performEnhancedSeparation.audioUrl, r.performEnhancedSeparation.outputBuffer>>,
   performAudioSeparation |->
     <<r.performAudioSeparation.audioUrl, r.performAudioSeparation.outputBuffer>>,
   extractAudioByFrequency |->
     <<r.extractAudioByFrequency.audioUrl, r.extractAudioByFrequency.outputBuffer>>]

\* C12: for one input signal and one target term, the extracted signal and
\* its encoded bytes are the same whatever labels the detector reported, in
\* each of the three separations.
C12_LabelsLeaveSignal ==
  Applied =>
    \A labels \in DetectedLists :
      Extracted(fnOut.detected[labels]) = Extracted(fnOut)

\* the detector reported the label of the target, which the matchers keep,
\* and the signal is not silence
C12_Witness ==
  /\ Applied
  /\ fnIn.target = <<"d", "o", "g">>
  /\ fnIn.buffer.channels = << <<0, 12 * SCALE, 0 - SCALE>> >>
  /\ matchQueryWithDetectedSounds(<<fnIn.target>>, <<<<"D", "o", "g">>, <<"m", "u", "s", "i", "c">>>>) = << <<"D", "o", "g">> >>
  /\ fnOut.detected[<<<<"D", "o", "g">>, <<"m", "u", "s", "i", "c">>>>].performEnhancedSeparation.outputBuffer.channels[1][2] # 0

\* C15: the engine never writes into the input signal: after the separation
\* of any target by any of the algorithms (the harmonic and the spectral
\* one, the amplified one, the frequency filter and the multi-band
\* fallback), every sample of every input channel is what it was.
C15_InputKept ==
  Applied =>
    /\ fnOut.performEnhancedSeparation.audioBuffer = fnIn.buffer
    /\ fnOut.performAudioSeparation.audioBuffer = fnIn.buffer
    /\ fnOut.extractAudioByFrequency.audioBuffer = fnIn.buffer
    /\ fnOut.applyAdvancedFiltering.input = fnIn.buffer.channels[1]

\* the filter stored windowed samples in its segments and the fallback
\* scaled samples in its bands, of a signal that is not silence
C15_Witness ==
  /\ Applied
  /\ fnIn.buffer.channels = <<TailedSignal>>
  /\ fnOut.applyAdvancedFiltering.out[2] = (12 * SCALE * 8) \div 10
  /\ fnOut.extractAudioByFrequency.outputBuffer.channels[1][2] # 12 * SCALE
  /\ fnOut.extractAudioByFrequency.audioBuffer.channels[1][2] = 12 * SCALE

Catalogs == {"getEnhancedSeparationParams", "getSeparationParams", "getTargetFrequencyRange"}

\* two profiles with the same frequency range, emphasis frequencies,
\* algorithm and gain (key is the catalogue key the profile is declared at)
SameProfile(p, q) == \A field \in DOMAIN p \ {"key"} : p[field] = q[field]

\* C13 as claimed: in each catalogue, the term "dog" and the term "barking"
\* have the same profile.
C13_DogAsBarking ==
  Applied /\ fnIn.target = <<"d", "o", "g">> /\ fnIn.other = <<"b", "a", "r", "k", "i", "n", "g">> =>
    \A catalog \in Catalogs :
      SameProfile(fnOut[fnIn.target][catalog], fnOut[fnIn.other][catalog])

\* sub occurs in text
IsSubstring(sub, text) ==
  \E k \in 0..(Len(text) - Len(sub)) : SubSeq(text, k + 1, k + Len(sub)) = sub

\* the places in a catalogue of the keys that occur in the term, whatever
\* the case of its letters
MatchingKeys(map, target) ==
  {i \in 1..Len(map) : IsSubstring(map[i].key, toLowerCase(target))}

\* the lookup returned the entry of the first matching key, or the default
\* profile if and only if no key matches
FirstKey(map, default, emphasis, target, profile) ==
  /\ \A i \in MatchingKeys(map, target) :
       (\A j \in MatchingKeys(map, target) : i <= j) => profile = map[i]
  /\ MatchingKeys(map, target) = {} <=> profile = default
  /\ default.low = 100 /\ default.high = 8000 /\ default.emphasis = emphasis

TargetsOfRequest ==
  IF build = "amplified" THEN parseQueryBasic(req.query) ELSE parseQuery(req.query)

\* rs holds the results of the first of the targets, in their order
ResultsOfFirstTargets(rs, targets) ==
  /\ Len(rs) <= Len(targets)
  /\ \A i \in 1..Len(rs) : rs[i].query = targets[i]

\* the results of the request in flight are those of its first index - 1
\* targets, and the list it publishes in this step has one entry per target
ProcessedInOrder(targets) ==
  /\ Len(req.results) = req.index - 1
  /\ ResultsOfFirstTargets(req.results, targets)
  /\ separationResults' # separationResults =>
       /\ Len(separationResults') = Len(targets)
       /\ ResultsOfFirstTargets(separationResults', targets)

\* C14: the targets of a request are processed one after another (while
\* target number index is in process the results gathered are those of the
\* index - 1 targets before it, in order), and the list a request publishes
\* has exactly one entry per target term parseQuery returned, in the same
\* order: results[i].query = targets[i].
C14_ResultPerTarget ==
  [][InFlight /\ req.pc = "separating" /\ req' # req =>
       ProcessedInOrder(TargetsOfRequest)]_vars

\* the two results of "Speech, Music" are published
C14_Witness ==
  /\ req.pc = "idle"
  /\ textQuery = <<"S", "p", "e", "e", "c", "h", ",", " ", "M", "u", "s", "i", "c">>
  /\ Len(separationResults) = 2
  /\ separationResults[1].query = <<"s", "p", "e", "e", "c", "h">>
  /\ separationResults[2].query = <<"m", "u", "s", "i", "c">>
  /\ toasts = <<"Separation Complete">>

IsKeyword(keywords, term) == \E i \in 1..Len(keywords) : keywords[i] = term

VocabularyIndex(keywords, term) ==
  CHOOSE i \in 1..Len(keywords) : keywords[i] = term

\* the sub-queries of a query that hold a keyword of the vocabulary
WithKeyword(keywords, query) ==
  {i \in 1..Len(subQueries(trim(toLowerCase(query)))) :
     \E k \in 1..Len(keywords) :
       IsSubstring(keywords[k], subQueries(trim(toLowerCase(query)))[i])}

\* C16 as claimed: if any sub-query of the query holds a vocabulary keyword,
\* every term parseQuery returns is a vocabulary keyword; a sub-query's own
\* text is returned only when no sub-query holds a keyword.
C16_LiteralOnlyWithoutKeyword ==
  Applied =>
    /\ WithKeyword(soundKeywords, fnIn.query) # {} =>
         \A i \in 1..Len(fnOut.parseQuery) :
           IsKeyword(soundKeywords, fnOut.parseQuery[i])
    /\ WithKeyword(soundKeywordsBasic, fnIn.query) # {} =>
         \A i \in 1..Len(fnOut.parseQueryBasic) :
           IsKeyword(soundKeywordsBasic, fnOut.parseQueryBasic[i])

\* the keywords of the list stand in the order of the vocabulary
InVocabularyOrder(keywords, list) ==
  \A i, j \in 1..Len(list) :
    i < j /\ IsKeyword(keywords, list[i]) /\ IsKeyword(keywords, list[j]) =>
      VocabularyIndex(keywords, list[i]) < VocabularyIndex(keywords, list[j])

\* C17 as claimed: the keywords parseQuery returns are ordered by their
\* position in the vocabulary, wherever the query mentions them.
C17_VocabularyOrder ==
  Applied =>
    /\ InVocabularyOrder(soundKeywords, fnOut.parseQuery)
    /\ InVocabularyOrder(soundKeywordsBasic, fnOut.parseQueryBasic)

\* the first sub-query of the query that holds the term
FirstSubQuery(query, term) ==
  LET queries == subQueries(trim(toLowerCase(query)))
      holding == {i \in 1..Len(queries) : IsSubstring(term, queries[i])}
  IN  CHOOSE i \in holding : \A j \in holding : i <= j

\* the keywords of the list stand in the order of the sub-queries that first
\* hold them, and those first held by the same sub-query in the order of
\* the vocabulary
InSubQueryOrder(keywords, query, list) ==
  \A i, j \in 1..Len(list) :
    i < j /\ IsKeyword(keywords, list[i]) /\ IsKeyword(keywords, list[j]) =>
      \/ FirstSubQuery(query, list[i]) < FirstSubQuery(query, list[j])
      \/ /\ FirstSubQuery(query, list[i]) = FirstSubQuery(query, list[j])
         /\ VocabularyIndex(keywords, list[i]) < VocabularyIndex(keywords, list[j])

\* C17, amended: the keywords parseQuery returns for one sub-query are
\* ordered by their position in the vocabulary, not by the position at
\* which the sub-query mentions them; the keywords first found in an
\* earlier sub-query come before those first found in a later one.
C17_VocabularyOrderInSubQuery ==
  Applied =>
    /\ InSubQueryOrder(soundKeywords, fnIn.query, fnOut.parseQuery)
    /\ InSubQueryOrder(soundKeywordsBasic, fnIn.query, fnOut.parseQueryBasic)

\* one sub-query mentions barking before dog
C17_Witness ==
  /\ Applied
  /\ fnIn.query = <<"b", "a", "r", "k", "i", "n", "g", " ", "d", "o", "g">>
  /\ fnOut.parseQuery = << <<"d", "o", "g">>, <<"b", "a", "r", "k", "i", "n", "g">> >>

\* a text made of commas, semicolons and white space only
OnlySeparators(text) ==
  \A i \in 1..Len(text) : text[i] \in {",", ";"} \/ isSpace(text[i])

\* C18 as claimed: a query made only of separators and white space has no
\* sub-query, and the component treats it as an input error: no request is
\* in flight for it, no target term of it is processed and no
\* SeparationResult is published for it.
C18_SeparatorsRejected ==
  /\ \A query \in Queries :
       OnlySeparators(query) => subQueries(trim(toLowerCase(query))) = <<>>
  /\ InFlight => ~OnlySeparators(req.query)
  /\ build \in SmartBuilds =>
       \A i \in 1..Len(separationResults) :
         ~OnlySeparators(separationResults[i].query)

\* one of the two is a substring of the other, whatever the case of letters
SubstringEitherWay(label, term) ==
  \/ IsSubstring(toLowerCase(label), toLowerCase(term))
  \/ IsSubstring(toLowerCase(term), toLowerCase(label))

\* the sound names a word of the synonym group
BelongsTo(group, sound) ==
  \/ IsSubstring(group.key, toLowerCase(sound))
  \/ \E i \in 1..Len(group.values) : IsSubstring(group.values[i], toLowerCase(sound))

SameGroup(table, label, term) ==
  \E i \in 1..Len(table) : BelongsTo(table[i], label) /\ BelongsTo(table[i], term)

\* matches holds no label twice, and holds exactly the detected labels
\* related to a target term
RelatedLabels(table, matches) ==
  /\ NoRepeat(matches)
  /\ \A i \in 1..Len(matches) : SeqContains(fnIn.detected, matches[i])
  /\ \A j \in 1..Len(fnIn.detected) :
       SeqContains(matches, fnIn.detected[j]) <=>
         \E i \in 1..Len(fnIn.targetSounds) :
           \/ SubstringEitherWay(fnIn.detected[j], fnIn.targetSounds[i])
           \/ SameGroup(table, fnIn.detected[j], fnIn.targetSounds[i])

\* C19 as claimed: matchQueryWithDetectedSounds returns each detected label
\* at most once, and returns a label if and only if, for some target term,
\* one of the two is a substring of the other whatever the case of letters,
\* or the label and the term belong to the same synonym group.
C19_RelatedLabels ==
  Applied =>
    /\ RelatedLabels(synonyms, fnOut.matchQueryWithDetectedSounds)
    /\ RelatedLabels(synonymsBasic, fnOut.matchQueryWithDetectedSoundsBasic)

\* the samples of the frame that starts at sample i, windowed
WindowedFrame(inputData, i) ==
  applyWindow(SubSeq(inputData, i + 1, Min(i + fftSize, Len(inputData))))

\* the windowed, masked frame of each engine that starts at sample i
EnhancedFrame(inputData, params, sampleRate, i) ==
  IF params.type = "harmonic"
  THEN harmonicFrame(WindowedFrame(inputData, i), params, sampleRate,
                     detectHarmonicContent(WindowedFrame(inputData, i), sampleRate,
                                           params.emphasis))
  ELSE spectralFrame(WindowedFrame(inputData, i), params, sampleRate,
                     calculateSpectralEnergy(WindowedFrame(inputData, i), sampleRate,
                                             params))

\* the starts of the frames of a channel of n samples
FrameStarts(n) == {i \in 0..(n - 1) : i % hopSize = 0}

RECURSIVE SumAt(_, _, _, _)
\* the sum of what the frames starting at i or later contribute at sample
\* k, each contribution scaled
SumAt(frames, k, i, scale) ==
  IF i \notin DOMAIN frames THEN 0
  ELSE FAdd(IF k > i /\ k - i <= Len(frames[i]) THEN FMul(frames[i][k - i], scale) ELSE 0,
            SumAt(frames, k, i + hopSize, scale))

\* overlap-add of the frames into a channel of n samples
OverlapAdd(frames, n, scale) == [k \in 1..n |-> SumAt(frames, k, 0, scale)]

\* the scales of the overlap-add: a half, and none
Scales == {SCALE \div 2, SCALE}

\* C21 as claimed: after an engine has processed a channel, every output
\* sample holds the sum, under one scale, of the windowed, masked values that
\* all frames covering the sample contribute at it: in the enhanced build, in
\* the amplified build (whose sum is then normalised) and in the frequency
\* filter of the utilities.
C21_OverlapAdd ==
  Applied =>
    LET n == Len(fnIn.inputData)
        enhanced == [i \in FrameStarts(n) |->
                       EnhancedFrame(fnIn.inputData,
                                     getEnhancedSeparationParams(fnIn.target),
                                     fnIn.sampleRate, i)]
        amplified == [i \in FrameStarts(n) |->
                        amplifiedFrame(WindowedFrame(fnIn.inputData, i),
                                       getSeparationParams(fnIn.target),
                                       fnIn.sampleRate)]
        filter == [i \in FrameStarts(n) |->
                     filteredFrame(WindowedFrame(fnIn.inputData, i),
                                   getTargetFrequencyRange(fnIn.target),
                                   fnIn.sampleRate)]
    IN  /\ fnOut.applyFrequencyBasedSeparation
             = normalize(OverlapAdd(amplified, n, SCALE \div 2))
        /\ \E scale \in Scales :
             fnOut.separateChannel = OverlapAdd(enhanced, n, scale)
        /\ \E scale \in Scales :
             fnOut.applyFrequencyFilter = OverlapAdd(filter, n, scale)

\* the algorithm variant a profile selects in performEnhancedSeparation
Variant(profile) ==
  IF profile.type = "harmonic" THEN "harmonic"
  ELSE IF profile.type = "spectral" THEN "spectral"
  ELSE "multiband"

MethodOf(variant) ==
  CASE variant = "harmonic" -> "Harmonic-Percussive Separation"
    [] variant = "spectral" -> "Spectral Masking"
    [] OTHER -> "Advanced Frequency Filtering"

\* the profiles a target term can resolve to: those of the catalogue, and
\* the default one
CatalogProfiles == {paramMap[i] : i \in 1..Len(paramMap)} \cup {defaultParams}

\* C22 as claimed: the separation runs the variant the profile of the target
\* names in its algorithm field (harmonic, spectral, or else the multiband
\* fallback), and each of the three variants is the variant of a profile
\* that some target term resolves to.
C22_VariantsSelectable ==
  Applied =>
    /\ fnOut.performEnhancedSeparation.method
         = MethodOf(Variant(getEnhancedSeparationParams(fnIn.target)))
    /\ \A variant \in {"harmonic", "spectral", "multiband"} :
         \E profile \in CatalogProfiles : Variant(profile) = variant

\* the values reported from the click on rise from 0, and the last of them
\* is the progress shown once the request is in flight
StartsAtZero(reported) ==
  /\ reported[1] = 0
  /\ \A i \in 1..(Len(reported) - 1) : reported[i] <= reported[i + 1]
  /\ processingProgress' = reported[Len(reported)]

\* C23: during one request processingProgress never decreases: the values
\* reported at its start rise from 0, every later step of the request
\* leaves the progress where it was or raises it, and the progress reaches
\* 100 only in the step that ends the request with the result of its last
\* target published.
C23_ProgressRises ==
  [][/\ ~InFlight /\ InFlight' => StartsAtZero(startProgress(req'.targetSounds))
     /\ InFlight =>
          /\ processingProgress < 100 * SCALE
          /\ processingProgress' >= processingProgress
          /\ processingProgress' = 100 * SCALE =>
               /\ req.pc = "separating" /\ req.index = Len(req.targetSounds)
               /\ req'.pc = "idle"
               /\ Len(separationResults') = Len(req.targetSounds)
               /\ separationResults'[req.index].query = req.targetSounds[req.index]]_vars

\* the second of two targets of the enhanced build is in process, at 65
C23_Witness ==
  /\ build = "enhanced"
  /\ req.pc = "separating"
  /\ req.index = 2
  /\ processingProgress = 65 * SCALE

\* areSimilarSounds returning false for every two sounds
NeverSimilar(sound1, sound2) == FALSE

\* the results of the request if the synonym table matched nothing
WithoutSynonyms ==
  resultsOf(fnIn.targetSounds, matchWith(NeverSimilar, fnIn.targetSounds, fnIn.detected))

\* C24 as claimed: for every list of targets and every list of detected
\* labels, the matchedSounds list and the confidence of each result are what
\* they would be if areSimilarSounds always returned false.
C24_SameWithoutSynonyms == Applied => fnOut.results = WithoutSynonyms

\* two lists of the same labels, in any order
SameLabels(list, other) ==
  /\ Len(list) = Len(other)
  /\ \A i \in 1..Len(list) : SeqContains(other, list[i])
  /\ \A i \in 1..Len(other) : SeqContains(list, other[i])

\* C24, amended: for every list of targets and every list of detected
\* labels, the matchedSounds list of each result holds the labels it would
\* hold if areSimilarSounds always returned false, though not always in the
\* same order when the query has several targets, and the confidence of
\* each result is what it would be then.
C24_SameLabelsWithoutSynonyms ==
  Applied =>
    \A i \in 1..Len(fnIn.targetSounds) :
      /\ SameLabels(fnOut.results[i].matchedSounds, WithoutSynonyms[i].matchedSounds)
      /\ fnOut.results[i].confidence = WithoutSynonyms[i].confidence

\* the matcher keeps a label for the synonym table alone, which the result
\* leaves out
C24_Witness ==
  /\ Applied
  /\ fnIn.targetSounds = << <<"d", "o", "g">> >>
  /\ fnOut.matchQueryWithDetectedSounds
       = << <<"b", "i", "g", " ", "d", "o", "g", "s">>, <<"a", "n", "i", "m", "a", "l">> >>
  /\ fnOut.results[1].matchedSounds = << <<"b", "i", "g", " ", "d", "o", "g", "s">> >>

\* the frame of the channel that starts at sample i has two samples or
\* more, and the bins of the range of the profile span one bin or more of it
FrameDivides(inputData, i, params, sampleRate) ==
  LET length == Len(segmentAt(inputData, i).values)
  IN  /\ length - 1 > 0
      /\ binOf(params.high, length, sampleRate) - binOf(params.low, length, sampleRate) > 0

\* C25 as claimed: while applySpectralMasking processes a channel of one
\* sample or more, at any rate and with any profile of the catalogue, no
\* frame divides by zero (each frame has two samples or more, and the bin
\* span of calculateSpectralEnergy is positive), and the quality returned is
\* a number.
C25_NoDivisionByZero ==
  Applied /\ getEnhancedSeparationParams(fnIn.target).type = "spectral" =>
    /\ \A c \in 1..Len(fnIn.buffer.channels) :
         \A i \in FrameStarts(fnIn.buffer.length) :
           FrameDivides(fnIn.buffer.channels[c], i,
                        getEnhancedSeparationParams(fnIn.target), fnIn.buffer.sampleRate)
    /\ ~IsNaN(fnOut.performEnhancedSeparation.quality)

\* the step ends the request in flight with a failure
Fails ==
  /\ InFlight
  /\ req'.pc = "idle"
  /\ toasts' # <<>> /\ toasts'[Len(toasts')] = "Processing Failed"

\* C26: a failed request leaves separationResults as it was before the
\* request started: the click that starts a request and every step of the
\* request up to the failure leave the list alone, so the results of an
\* earlier query are neither cleared nor replaced, and the failing step
\* leaves processingProgress at the last value reached.
C26_FailureKeepsResults ==
  [][/\ ~InFlight /\ InFlight' => separationResults' = separationResults
     /\ InFlight /\ InFlight' => separationResults' = separationResults
     /\ Fails => /\ separationResults' = separationResults
                  /\ processingProgress' = processingProgress]_vars

\* a request of the enhanced build failed at the decoder after an earlier
\* request had published its results
C26_Witness ==
  /\ build = "enhanced"
  /\ req.pc = "idle"
  /\ separationResults # <<>>
  /\ toasts = <<"Processing Failed">>
  /\ processingProgress = 25 * SCALE

\* the buffer of one channel that holds channel c of the buffer
OnlyChannel(buffer, c) == [buffer EXCEPT !.channels = <<buffer.channels[c]>>]

\* the quality and the bytes of the separation of a buffer of one channel
Alone(buffer, c, target) ==
  performEnhancedSeparation(OnlyChannel(buffer, c), target, <<>>)

\* C27: for an input of more than one channel, the quality
\* performEnhancedSeparation returns, and the confidence is computed from,
\* is the quality of the last channel alone, and the encoded audio is that
\* of the first channel alone.
C27_LastQualityFirstAudio ==
  Applied /\ Len(fnIn.buffer.channels) > 1 =>
    /\ fnOut.performEnhancedSeparation.quality
         = Alone(fnIn.buffer, Len(fnIn.buffer.channels), fnIn.target).quality
    /\ fnOut.performEnhancedSeparation.audioUrl
         = Alone(fnIn.buffer, 1, fnIn.target).audioUrl
    /\ \A labels \in DetectedLists :
         fnOut.confidence[labels].calculateEnhancedConfidence
           = calculateEnhancedConfidence(
               fnIn.target, matchQueryWithDetectedSounds(<<fnIn.target>>, labels),
               Alone(fnIn.buffer, Len(fnIn.buffer.channels), fnIn.target).quality)

\* a loud first channel and a silent second one: the quality is that of
\* the silence, the audio that of the loud channel
C27_Witness ==
  /\ Applied
  /\ fnIn.target = <<"s", "p", "e", "e", "c", "h">>
  /\ fnIn.buffer.channels = <<TailedSignal, [k \in 1..(hopSize + 3) |-> 0]>>
  /\ fnOut.performEnhancedSeparation.quality = 0
  /\ Alone(fnIn.buffer, 1, fnIn.target).quality > 0
  /\ fnOut.performEnhancedSeparation.outputBuffer.channels[1]
       # fnOut.performEnhancedSeparation.outputBuffer.channels[2]

-----------------------------------------------------------------------------
(* Playback of the extracted results.  The <audio> element of result        *)
(* number index is keyed by the index: when setSeparationResults replaces   *)
(* the list, the elements of the indices that remain get a new src (the     *)
(* media element load algorithm pauses them) and the others are unmounted.  *)

\* togglePlayback(index), from the Play/Pause button of a rendered result
togglePlayback(index) ==
  /\ build \in SmartBuilds
  /\ index \in 1..Len(separationResults)
  /\ req.pc \in {"idle", "decoding"} \/ build = "simulated"
  /\ IF playingIndex = Some(index)
     THEN /\ playing' = playing \ {index}
          /\ playingIndex' = Null
     ELSE /\ playing' = {index}
          /\ playingIndex' = Some(index)
  /\ UNCHANGED <<build, audioFile, audioUrl, detectedSounds, localAudioFile,
                 localAudioUrl, textQuery, separationResults, isProcessing,
                 processingProgress, mixedAudio, separatedAudios, download, req,
                 toasts, fnVars>>

\* onEnded of the <audio> element of result number index
audioEnded(index) ==
  /\ build \in SmartBuilds
  /\ index \in playing
  /\ req.pc \in {"idle", "decoding"} \/ build = "simulated"
  /\ playing' = playing \ {index}
  /\ playingIndex' = Null
  /\ UNCHANGED <<build, audioFile, audioUrl, detectedSounds, localAudioFile,
                 localAudioUrl, textQuery, separationResults, isProcessing,
                 processingProgress, mixedAudio, separatedAudios, download, req,
                 toasts, fnVars>>

InitPlayback == Unmounted /\ NoFunction

NextPlayback ==
  \/ \E file \in Files : handleFileUpload(file)
  \/ \E value \in Queries : setTextQuery(value)
  \/ processTextQuery
  \/ \E throws \in BOOLEAN : loadAudioFile(throws)
  \/ \E throws \in BOOLEAN, random \in Randoms : processTarget(throws, random)
  \/ \E index \in 1..Len(separationResults) : togglePlayback(index)
  \/ \E index \in playing : audioEnded(index)

SpecPlayback == InitPlayback /\ [][NextPlayback]_vars

\* C28: playingIndex is null or the number of a result of the current list
\* whose audio element is the one playing.
C28_PlayingIndexNamesPlayingResult ==
  playingIndex # Null =>
    /\ ValueOf(playingIndex) \in 1..Len(separationResults)
    /\ playing = {ValueOf(playingIndex)}

-----------------------------------------------------------------------------
(* The props of SmartAudioSeparator.  useState reads audioFile and audioUrl *)
(* when the component mounts; a later render with other props leaves        *)
(* localAudioFile and localAudioUrl as they are.                            *)

\* the parent renders the component again, now with the file it analysed
propsSupplied(file) ==
  /\ build \in SmartBuilds
  /\ isAudioType(file.type)
  /\ audioFile' = Some(file)
  /\ audioUrl' = Some(file.name)
  /\ UNCHANGED <<build, detectedSounds, localAudioFile, localAudioUrl, textQuery,
                 separationResults, isProcessing, processingProgress, mixedAudio,
                 separatedAudios, download, req, toasts, playingIndex, playing,
                 fnVars>>

\* the component mounts without a file or with the file of the parent
InitProps ==
  /\ build \in SmartBuilds
  /\ detectedSounds = <<>>
  /\ \/ NoFile
     \/ \E file \in Files : /\ isAudioType(file.type)
                            /\ audioFile = Some(file)
                            /\ audioUrl = Some(file.name)
  /\ Mounted
  /\ NoFunction

NextProps ==
  \/ \E file \in Files : propsSupplied(file)
  \/ \E file \in Files : handleFileUpload(file)
  \/ \E value \in Queries : setTextQuery(value)
  \/ processTextQuery
  \/ \E throws \in BOOLEAN : loadAudioFile(throws)
  \/ \E throws \in BOOLEAN, random \in Randoms : processTarget(throws, random)

SpecProps == InitProps /\ [][NextProps]_vars

\* the Extract button is rendered and not disabled
ExtractEnabled ==
  /\ build \in SmartBuilds
  /\ currentAudioUrl # Null
  /\ trim(textQuery) # <<>>
  /\ ~isProcessing

\* C29: whenever the Extract button is shown and enabled, a click on it
\* starts a request: processTextQuery does not return before it sets
\* isProcessing, also when the file came through the props after the mount.
C29_ClickStartsRequest == ExtractEnabled => ~returnsEarly

-----------------------------------------------------------------------------
(* The assembled page.  Index keeps the analysed audio in a state of its    *)
(* own and hands its fields to SmartAudioSeparator; AudioAnalyzer is        *)
(* rendered without props and nothing calls setAnalyzedAudio.               *)

\* a page whose analyzer has stored what it detected
analyzedAudioStored ==
  [file |-> Null, url |-> Null,
   detectedSounds |-> << <<"D", "o", "g", " ", "b", "a", "r", "k">>,
                         <<"S", "p", "e", "e", "c", "h">> >>]

\* the initial value of useState in Index, the only value analyzedAudio has
analyzedAudio == [file |-> Null, url |-> Null, detectedSounds |-> <<>>]

\* <SmartAudioSeparator audioFile={analyzedAudio.file}
\*    audioUrl={analyzedAudio.url} detectedSounds={analyzedAudio.detectedSounds} />
InitIndex ==
  /\ build \in {"enhanced", "amplified"}
  /\ audioFile = analyzedAudio.file
  /\ audioUrl = analyzedAudio.url
  /\ detectedSounds = analyzedAudio.detectedSounds
  /\ Mounted
  /\ NoFunction

\* what the user can do on the Separator tab
NextIndex ==
  \/ \E file \in Files : handleFileUpload(file)
  \/ \E value \in Queries : setTextQuery(value)
  \/ processTextQuery
  \/ \E throws \in BOOLEAN : loadAudioFile(throws)
  \/ \E throws \in BOOLEAN, random \in Randoms : processTarget(throws, random)
  \/ \E index \in 1..Len(separationResults) : downloadExtracted(index)
  \/ \E index \in 1..Len(separationResults) : togglePlayback(index)
  \/ \E index \in playing : audioEnded(index)

SpecIndex == InitIndex /\ [][NextIndex]_vars

\* the confidence of a published result is the one computed for its target
\* with no matched label
NoMatchBonus(result) ==
  IF build = "enhanced"
  THEN result.confidence
         = calculateEnhancedConfidence(
             result.query, <<>>,
             performEnhancedSeparation(ValueOf(ValueOf(localAudioFile).buffer),
                                       result.query, <<>>).quality)
  ELSE result.confidence = calculateConfidence(result.query, <<>>)

\* C30: on the page SmartAudioSeparator always has audioFile = null,
\* audioUrl = null and detectedSounds = [], and every published result has
\* an empty list of matched labels and a confidence without the match bonus.
C30_PageNeverMatches ==
  /\ audioFile = Null
  /\ audioUrl = Null
  /\ detectedSounds = <<>>
  /\ \A i \in 1..Len(separationResults) :
       /\ separationResults[i].matchedSounds = <<>>
       /\ NoMatchBonus(separationResults[i])

\* 'dog' extracted by the amplified text: 0.5 and the 0.15 of a well-defined
\* target, where a detected 'Dog bark' would have given 0.9
C30_Witness ==
  /\ build = "amplified"
  /\ \E i \in 1..Len(separationResults) :
       /\ separationResults[i].query = <<"d", "o", "g">>
       /\ separationResults[i].matchedSounds = <<>>
       /\ separationResults[i].confidence = (65 * SCALE) \div 100
  /\ calculateConfidence(<<"d", "o", "g">>, << <<"D", "o", "g", " ", "b", "a", "r", "k">> >>)
       = (9 * SCALE) \div 10

====
